---- MODULE Spec2Model ----
(***************************************************************************)
(* RIFT-0 tokenization core: the pattern registry and its DFA compiler     *)
(* (tokenizer_rules.c), the tokenizer context and its scan                 *)
(* (tokenizer.c), and the dual-channel router (rift-0.c).                  *)
(***************************************************************************)
EXTENDS Integers, Sequences, FiniteSets, TLC

VARIABLES
    ctx,        \* the TokenizerContext (tokenizer_types.h)
    lexemes,    \* per emitted token of the last scan: bytes consumed for it
    result,     \* what the last public operation returned
    last_op,    \* the last public operation executed
    snap,       \* what an earlier scan produced, kept for comparison
    phase,      \* where a scan / reset / scan sequence stands
    pc,         \* per thread: the step its call is at
    mutex,      \* the owner of context_mutex, 0 when it is free
    local,      \* per thread: the locals of its call
    stage0,     \* the RiftStage0Context (rift-0.c)
    output,     \* the DualChannelOutput process_stage0 returned last
    scanned,    \* the tokens tokenize_input returned to process_stage0
    calls,      \* how many process_stage0 calls the context went through
    handed,     \* the input of the last process_stage0 call
    composition, \* a RegexComposition handed to rift_regex_compile / _match
    subject,    \* the bytes last given to rift_regex_match
    matched,    \* what rift_regex_match returned for them
    destroyed,  \* what rift_regex_destroy did to the states of the graph
    states,     \* DFAStates built through the rift_dfa_* functions
    last_add,   \* the last rift_dfa_add_transition call and its slot before
    src,        \* the C string handed to the functions of tokenizer_match.c
    out_token,  \* what match_token_pattern / classify_null_nil_semantic gave
    machine,    \* the DFAStateMachine of tokenizer_match.c
    fed,        \* the characters given to it since dfa_create or dfa_reset
    answer,     \* the last call on it and the value the call returned
    fetched,    \* the last rift_tokenizer_get_tokens call and what it gave
    loop,       \* the locals of rift_rules_apply_all inside its while loop
    range       \* the locals of the range loop of a character class

ctxVars == <<ctx, lexemes, result, last_op>>
snapVars == <<snap, phase>>
threadVars == <<pc, mutex, local>>
routerVars == <<stage0, output, scanned, calls, handed>>
compileVars == <<composition, subject, matched, destroyed>>
dfaVars == <<states, last_add>>
matchVars == <<src, out_token, machine, fed, answer>>
bufferVars == <<fetched, loop, range>>
vars == <<ctx, lexemes, result, last_op, snap, phase, pc, mutex, local,
          stage0, output, scanned, calls, handed, composition, subject, matched,
          destroyed, states, last_add, src, out_token, machine, fed,
          answer, fetched, loop, range>>

-----------------------------------------------------------------------------
(* Bounds of the model *)

MaxInputLen == 2
MaxTokenCapacity == 2
MaxPatternCapacity == 2
MaxBytesScanned == 2
MaxWords == 2
MaxSubjectLen == 3
MaxDfaStates == 2
MaxTransitionCount == 3
MaxCalls == 2
MaxSrcLen == 4
MaxFed == 5
MaxIterations == 4
MaxRuns == 3
MaxLongWords == 254200
MaxScanLen == 3
MaxBufferPatterns == 1
MaxBufferBytes == 1
MaxRangeSteps == 260
MaxWildcards == 4
MaxOptionalAtoms == 16

-----------------------------------------------------------------------------
(* Program constants *)

TOKEN_UNKNOWN == 0
TOKEN_IDENTIFIER == 1
TOKEN_KEYWORD == 2
TOKEN_LITERAL_STRING == 3
TOKEN_LITERAL_NUMBER == 4
TOKEN_OPERATOR == 5
TOKEN_DELIMITER == 7
TOKEN_R_PATTERN == 8
TOKEN_NULL_KEYWORD == 9
TOKEN_NIL_KEYWORD == 10
TOKEN_WHITESPACE == 11
TOKEN_EOF == 13
TOKEN_ERROR == 255

TOKEN_FLAG_NONE == 0
TOKEN_FLAG_GLOBAL == 1
TOKEN_FLAG_MULTILINE == 2

RIFT_TOKENIZER_MAX_TOKENS == 65535
RIFT_TOKENIZER_MAX_PATTERNS == 256
RIFT_TOKENIZER_DEFAULT_CAPACITY == 1024
RIFT_TOKENIZER_MIN_PATTERN_CAPACITY == 16
DFA_MAX_STATES == 1024
ACCEPT_STATES_SLOTS == 16

RIFT_TOKENIZER_SUCCESS == 0
RIFT_TOKENIZER_ERROR_INVALID_INPUT == 2
RIFT_TOKENIZER_ERROR_REGEX_COMPILATION_FAILED == 5
RIFT_TOKENIZER_ERROR_MEMORY_ALLOCATION_FAILED == 7

DFA_STATE_INIT == 0
DFA_STATE_R == 1
DFA_STATE_QUOTE == 2
DFA_STATE_CONTENT == 3
DFA_STATE_ACCEPT == 4
DFA_STATE_ERROR == -1

\* a NULL DFAState pointer
NULL_STATE == -1

Byte == 0..255

-----------------------------------------------------------------------------
(* Characters: a C string is a sequence of bytes; a pattern or an input is  *)
(* written as a tuple of one-character strings and encoded in ASCII.        *)

Ord(c) ==
    CASE c = "\n" -> 10
      [] c = " " -> 32
      [] c = "!" -> 33
      [] c = "\"" -> 34
      [] c = "$" -> 36
      [] c = "'" -> 39
      [] c = "(" -> 40
      [] c = ")" -> 41
      [] c = "*" -> 42
      [] c = "+" -> 43
      [] c = "-" -> 45
      [] c = "." -> 46
      [] c = "/" -> 47
      [] c = "1" -> 49
      [] c = "<" -> 60
      [] c = "=" -> 61
      [] c = ">" -> 62
      [] c = "?" -> 63
      [] c = "@" -> 64
      [] c = "I" -> 73
      [] c = "L" -> 76
      [] c = "N" -> 78
      [] c = "R" -> 82
      [] c = "U" -> 85
      [] c = "[" -> 91
      [] c = "\\" -> 92
      [] c = "]" -> 93
      [] c = "^" -> 94
      [] c = "_" -> 95
      [] c = "a" -> 97
      [] c = "b" -> 98
      [] c = "f" -> 102
      [] c = "i" -> 105
      [] c = "l" -> 108
      [] c = "n" -> 110
      [] c = "u" -> 117
      [] c = "z" -> 122
      [] c = "{" -> 123
      [] c = "|" -> 124
      [] c = "}" -> 125

CStr(s) == [k \in 1..Len(s) |-> Ord(s[k])]

\* pattern[i] for the C index i; the byte at strlen is the terminating NUL
CharAt(pattern, i) == IF i < Len(pattern) THEN pattern[i + 1] ELSE 0

-----------------------------------------------------------------------------
(* DFA states (tokenizer_rules.c).  A graph is a record                     *)
(*   trans  : the tables, trans[s + 1][b] the target of state_id s on b     *)
(*   final  : the state_ids whose is_final is set                           *)
(*   accept : the accept_states array of the RegexComposition               *)

\* rift_dfa_create_state: an empty transition table of 256 entries
EmptyTable == [b \in Byte |-> NULL_STATE]

\* rift_dfa_add_transition for every byte of a set: from->transitions[b] = to
RiftDfaAddTransitions(trans, from, to, char_set) ==
    [trans EXCEPT ![from + 1] = [b \in char_set \cap Byte |-> to] @@ @]

\* the same from every state of froms: the tables of the other states stay
AddFromAll(trans, froms, to, char_set) ==
    [s \in 1..Len(trans) |->
        IF s - 1 \in froms
        THEN RiftDfaAddTransitions(trans, s - 1, to, char_set)[s]
        ELSE trans[s]]

\* rift_dfa_process_input: NULL for an empty input, else walk the tables
RECURSIVE DfaWalk(_, _, _, _)
DfaWalk(trans, current, input, k) ==
    IF k > Len(input) \/ current = NULL_STATE THEN current
    ELSE DfaWalk(trans, trans[current + 1][input[k]], input, k + 1)

RiftDfaProcessInput(dfa, input) ==
    IF Len(input) = 0 THEN NULL_STATE ELSE DfaWalk(dfa.trans, 0, input, 1)

RiftDfaIsAcceptingState(dfa, state) ==
    IF state = NULL_STATE THEN FALSE ELSE state \in dfa.final

\* DFAStates made one by one through the functions above: trans[s + 1] and
\* count[s + 1] are the transition table and the transition_count of the
\* state created s-th
NoStates == [trans |-> <<>>, count |-> <<>>]

\* rift_dfa_create_state (the allocations succeed)
RiftDfaCreateState(g) ==
    [trans |-> Append(g.trans, EmptyTable), count |-> Append(g.count, 0)]

\* rift_dfa_add_transition(from, to, transition_char): false for a NULL
\* from or to; otherwise the slot is written and the count incremented
RiftDfaAddTransition(g, from, to, transition_char) ==
    IF from = NULL_STATE \/ to = NULL_STATE
    THEN [states |-> g, ret |-> FALSE]
    ELSE [states |-> [trans |-> RiftDfaAddTransitions(g.trans, from, to,
                                                      {transition_char}),
                      count |-> [g.count EXCEPT ![from + 1] = @ + 1]],
          ret |-> TRUE]

-----------------------------------------------------------------------------
(* _compile_simple_pattern                                                  *)

\* the bytes c1..c2 of a character-class range: what the range loop leaves
\* in temp_set when it ends (see RangeStep for the loop itself)
RangeSet(c1, c2) == {ch \in Byte : c1 <= ch /\ ch <= c2}

\* the body of a character class, from index i up to the closing bracket:
\* yields the set collected and the index reached
RECURSIVE ParseClass(_, _, _, _)
ParseClass(pattern, pattern_len, i, temp_set) ==
    IF ~(i < pattern_len /\ CharAt(pattern, i) # Ord("]"))
    THEN [set |-> temp_set, i |-> i]
    ELSE
      LET esc == CharAt(pattern, i) = Ord("\\") /\ i + 1 < pattern_len
          c1  == IF esc THEN CharAt(pattern, i + 1) ELSE CharAt(pattern, i)
          i1  == IF esc THEN i + 2 ELSE i + 1
      IN  IF i1 < pattern_len - 1 /\ CharAt(pattern, i1) = Ord("-")
             /\ CharAt(pattern, i1 + 1) # Ord("]")
          THEN LET esc2 == CharAt(pattern, i1 + 1) = Ord("\\") /\ i1 + 2 < pattern_len
                   c2   == IF esc2 THEN CharAt(pattern, i1 + 2) ELSE CharAt(pattern, i1 + 1)
                   i2   == IF esc2 THEN i1 + 2 ELSE i1 + 1
               IN  ParseClass(pattern, pattern_len, i2 + 1, temp_set \cup RangeSet(c1, c2))
          ELSE ParseClass(pattern, pattern_len, i1, temp_set \cup {c1})

\* a character class whose body was parsed: the set, negated after [^, and
\* the index after the closing bracket
ClassUnit(pattern, pattern_len, negate, body) ==
    [set |-> IF negate THEN Byte \ body.set ELSE body.set,
     i   |-> IF body.i < pattern_len /\ CharAt(pattern, body.i) = Ord("]")
             THEN body.i + 1 ELSE body.i]

\* one unit of the pattern at index i: its character set and the index after it
ParseUnit(pattern, pattern_len, i) ==
    IF CharAt(pattern, i) = Ord("\\") /\ i + 1 < pattern_len
    THEN [set |-> {CharAt(pattern, i + 1)}, i |-> i + 2]
    ELSE IF CharAt(pattern, i) = Ord("[")
    THEN IF CharAt(pattern, i + 1) = Ord("^")
         THEN ClassUnit(pattern, pattern_len, TRUE,
                        ParseClass(pattern, pattern_len, i + 2, {}))
         ELSE ClassUnit(pattern, pattern_len, FALSE,
                        ParseClass(pattern, pattern_len, i + 1, {}))
    ELSE IF CharAt(pattern, i) = Ord(".")
    THEN [set |-> Byte, i |-> i + 1]
    ELSE [set |-> {CharAt(pattern, i)}, i |-> i + 1]

Quantifiers == {Ord("*"), Ord("+"), Ord("?")}

\* the states a transition to the new state is added from: current, every
\* state of the skip list, and the new state itself under * and +
FromStates(current, skip_list, quant, next) ==
    {current} \cup {skip_list[k] : k \in 1..Len(skip_list)}
       \cup (IF quant \in {Ord("*"), Ord("+")} THEN {next} ELSE {})

\* the quantifier after a unit, 0 when there is none
QuantifierAt(pattern, pattern_len, i) ==
    IF i < pattern_len /\ CharAt(pattern, i) \in Quantifiers
    THEN CharAt(pattern, i) ELSE 0

\* the main loop: one unit, its quantifier, one new state, its transitions.
\* state_id is the counter the new state takes its id from.
RECURSIVE CompileLoop(_, _, _, _, _, _, _)
RECURSIVE CompileUnit(_, _, _, _, _, _, _, _)
CompileLoop(pattern, pattern_len, i, current, skip_list, trans, state_id) ==
    IF ~(i < pattern_len)
    THEN [trans  |-> trans,
          final  |-> {current} \cup {skip_list[k] : k \in 1..Len(skip_list)},
          accept |-> <<current>> \o skip_list]
    ELSE CompileUnit(pattern, pattern_len, current, skip_list, trans, state_id,
                     ParseUnit(pattern, pattern_len, i),
                     QuantifierAt(pattern, pattern_len,
                                  ParseUnit(pattern, pattern_len, i).i))

CompileUnit(pattern, pattern_len, current, skip_list, trans, state_id, unit, quant) ==
    CompileLoop(pattern, pattern_len,
                IF quant # 0 THEN unit.i + 1 ELSE unit.i,
                state_id,
                IF quant \in {Ord("*"), Ord("?")}
                THEN <<current>> \o skip_list ELSE <<>>,
                AddFromAll(Append(trans, EmptyTable),
                           FromStates(current, skip_list, quant, state_id),
                           state_id, unit.set),
                state_id + 1)

\* _compile_simple_pattern: anchors skipped, then the loop.  trans[s + 1] is
\* the table of state_id s; the start state has id 0.
CompileSimplePattern(pattern) ==
    LET i0   == IF CharAt(pattern, 0) = Ord("^") THEN 1 ELSE 0
        len0 == Len(pattern)
        plen == IF len0 > 0 /\ pattern[len0] = Ord("$") THEN len0 - 1 ELSE len0
    IN  CompileLoop(pattern, plen, i0, 0, <<>>, <<EmptyTable>>, 1)

-----------------------------------------------------------------------------
(* Patterns and inputs of the model *)

\* the patterns a caller registers: text, token type, flags
PatternCatalogue ==
    { [pattern |-> CStr(<<"[", "a", "-", "z", "]", "+">>),
       token_type |-> TOKEN_IDENTIFIER, flags |-> TOKEN_FLAG_NONE],
      [pattern |-> CStr(<<"a", "a">>),
       token_type |-> TOKEN_KEYWORD, flags |-> TOKEN_FLAG_GLOBAL],
      [pattern |-> CStr(<<"[", " ", "\n", "]", "+">>),
       token_type |-> TOKEN_WHITESPACE, flags |-> TOKEN_FLAG_NONE] }

PatternTexts == {p.pattern : p \in PatternCatalogue}

\* a pattern whose language holds the empty string
StarPattern ==
    [pattern |-> CStr(<<"a", "*">>), token_type |-> TOKEN_LITERAL_NUMBER,
     flags |-> TOKEN_FLAG_NONE]

InputAlphabet == {Ord("a"), Ord("\n")}

RECURSIVE SeqsUpTo(_, _)
SeqsUpTo(S, n) ==
    IF n = 0 THEN {<<>>}
    ELSE LET shorter == SeqsUpTo(S, n - 1)
         IN  shorter \cup {Append(s, x) : s \in shorter, x \in S}

Inputs == SeqsUpTo(InputAlphabet, MaxInputLen)

\* a NULL input pointer
NULL_PTR == <<-1>>

Strlen(input) == Len(input)

-----------------------------------------------------------------------------
(* RegexComposition (tokenizer_rules.c)                                     *)

\* the graph _compile_simple_pattern builds for each pattern text; the graph
\* is never changed after compilation
CompiledGraph ==
    [p \in PatternTexts \cup {StarPattern.pattern} |-> CompileSimplePattern(p)]

\* rift_regex_compile: "regex" when the RegexComposition cannot be allocated
\* (NULL is returned), "state" when a DFA state cannot be allocated inside
\* _compile_simple_pattern (is_compiled stays false), "ok" otherwise.
\* token_type is start_state->token_type, TOKEN_UNKNOWN on creation.
RiftRegexCompile(pattern, flags, alloc) ==
    [pattern |-> pattern, flags |-> flags, is_compiled |-> (alloc = "ok"),
     token_type |-> TOKEN_UNKNOWN]

\* rift_regex_match
DfaAccepts(dfa, input) ==
    RiftDfaIsAcceptingState(dfa, RiftDfaProcessInput(dfa, input))

RiftRegexMatch(regex, input) ==
    /\ regex.is_compiled
    /\ DfaAccepts(CompiledGraph[regex.pattern], input)

\* the graph of a RegexComposition before _compile_simple_pattern: the
\* start state alone
StartGraph == [trans |-> <<EmptyTable>>, final |-> {}, accept |-> <<>>]

\* no RegexComposition (rift_regex_compile returned NULL)
NULL_REGEX ==
    [pattern |-> <<>>, flags |-> TOKEN_FLAG_NONE, is_compiled |-> FALSE,
     graph |-> StartGraph]

\* rift_regex_compile with the graph kept in the record.  When a DFA state
\* cannot be allocated the composition is returned with is_compiled false;
\* its graph is never walked.  The flags are stored; the compiler is given
\* the composition and the pattern and does not read them.
RiftRegexCompileGraph(pattern, flags, alloc) ==
    IF alloc = "regex" THEN NULL_REGEX
    ELSE [pattern |-> pattern, flags |-> flags, is_compiled |-> (alloc = "ok"),
          graph |-> IF alloc = "ok" THEN CompileSimplePattern(pattern)
                    ELSE StartGraph]

\* rift_regex_match on such a composition
RiftRegexMatchGraph(r, input) ==
    /\ r.is_compiled
    /\ input # NULL_PTR
    /\ DfaAccepts(r.graph, input)

\* rift_dfa_destroy_states.  queue holds state pointers (every entry ever
\* placed in it, its length is queue_back), front is queue_front, visited the slots of the visited array that are set,
\* released the states freed so far, in order.  Line 66 reads
\* current->state_id: when current was already freed the read is of freed
\* memory and its outcome is left to the allocator, stale says which one
\* happens: "kept" (the old state_id is still there, the entry is skipped)
\* or "reused" (another value is there, the entry is taken for a state not
\* yet visited and freed a second time, where the C library aborts).
Targets(table, visited) ==
    SelectSeq([k \in 1..256 |-> table[k - 1]],
              LAMBDA t : t # NULL_STATE /\ (t % DFA_MAX_STATES) \notin visited)

\* the queue index after front of the next state not yet released, one
\* past the queue when there is none: the iterations in between each
\* dequeue a released state
NextKept(queue, front, released) ==
    IF \E j \in front..Len(queue) : \A k \in 1..Len(released) : released[k] # queue[j]
    THEN CHOOSE j \in front..Len(queue) :
            /\ \A k \in 1..Len(released) : released[k] # queue[j]
            /\ \A i \in front..(j - 1) : \E k \in 1..Len(released) : released[k] = queue[i]
    ELSE Len(queue) + 1

RECURSIVE DestroyLoop(_, _, _, _, _, _, _)
DestroyLoop(trans, queue, front, visited, released, stale_reads, stale) ==
    IF ~(front <= Len(queue))
    THEN [called |-> TRUE, released |-> released, stale_reads |-> stale_reads,
          enqueued |-> Len(queue)]
    ELSE IF \E k \in 1..Len(released) : released[k] = queue[front]
    THEN IF stale = "kept"
         THEN DestroyLoop(trans, queue, NextKept(queue, front, released), visited,
                          released,
                          stale_reads + NextKept(queue, front, released) - front,
                          stale)
         ELSE [called |-> TRUE, released |-> Append(released, queue[front]),
               stale_reads |-> stale_reads + 1, enqueued |-> Len(queue)]
    ELSE DestroyLoop(trans,
                     queue \o Targets(trans[queue[front] + 1],
                                      visited \cup {queue[front] % DFA_MAX_STATES}),
                     front + 1,
                     visited \cup {queue[front] % DFA_MAX_STATES},
                     Append(released, queue[front]), stale_reads, stale)

RiftDfaDestroyStates(trans, root, stale) ==
    DestroyLoop(trans, <<root>>, 1, {}, <<>>, 0, stale)

\* no rift_regex_destroy call since the composition was made
NotDestroyed ==
    [called |-> FALSE, released |-> <<>>, stale_reads |-> 0, enqueued |-> 0]

\* rift_regex_destroy: the states are destroyed from start_state on
RiftRegexDestroy(r, stale) ==
    IF r = NULL_REGEX THEN NotDestroyed
    ELSE RiftDfaDestroyStates(r.graph.trans, 0, stale)

\* n copies of the text s one after the other
RECURSIVE Repeated(_, _)
Repeated(s, n) == IF n = 0 THEN <<>> ELSE s \o Repeated(s, n - 1)

\* the pattern texts handed to the compiler: literals, an escape, classes,
\* the wildcard, anchors, quantifiers, texts with an alternation, a group
\* and an unterminated class, a run of wildcards and a run of optional atoms
CompileTexts ==
    { CStr(<<"a", "b">>), CStr(<<"a", "*", "b">>), CStr(<<"a", "*", "a">>),
      CStr(<<"a", "?", "a">>), CStr(<<"a", "+", "b">>),
      CStr(<<"[", "a", "b", "]", "+">>), CStr(<<"[", "^", "a", "]">>),
      CStr(<<".">>), CStr(<<"\\", "a", "b">>), CStr(<<"^", "a", "b", "$">>),
      CStr(<<"a", "|", "b">>), CStr(<<"(", "a", ")">>), CStr(<<"[", "a">>),
      CStr(Repeated(<<".">>, MaxWildcards)),
      CStr(Repeated(<<"a", "?">>, MaxOptionalAtoms)) }

SubjectAlphabet == {Ord("a"), Ord("b"), Ord("\n")}

Subjects == SeqsUpTo(SubjectAlphabet, MaxSubjectLen)

-----------------------------------------------------------------------------
(* Tokens *)

\* rift_token_create: the arguments are cast to the widths of the fields
RiftTokenCreate(type, mem_ptr, value) ==
    [type |-> type % 256, mem_ptr |-> mem_ptr % 65536, value |-> value % 256]

\* a calloc'ed TokenTriplet
ZeroToken == [type |-> 0, mem_ptr |-> 0, value |-> 0]

-----------------------------------------------------------------------------
(* rift_rules_register_pattern, rift_rules_unregister_pattern, clear_all    *)

SetError(c, code) == [c EXCEPT !.error_code = code, !.has_error = TRUE]

\* the context after the call, and the value returned
RiftRulesRegisterPattern(c, pattern, token_type, flags, alloc) ==
    IF c.pattern_count >= c.pattern_capacity
    THEN [ctx |-> SetError(c, RIFT_TOKENIZER_ERROR_INVALID_INPUT), ret |-> FALSE]
    ELSE IF alloc = "regex"
    THEN [ctx |-> SetError(c, RIFT_TOKENIZER_ERROR_REGEX_COMPILATION_FAILED),
          ret |-> FALSE]
    ELSE LET regex == [RiftRegexCompile(pattern, flags, alloc)
                          EXCEPT !.token_type = token_type]
         IN  [ctx |-> [c EXCEPT !.regex_patterns = Append(@, regex),
                                !.pattern_count = @ + 1,
                                !.stats.regex_patterns = @ + 1],
              ret |-> TRUE]


\* rift_rules_unregister_pattern: the first entry with this text is removed
\* and the later ones are shifted down
RECURSIVE FindPattern(_, _, _)
FindPattern(patterns, pattern, i) ==
    IF i > Len(patterns) THEN 0
    ELSE IF patterns[i].pattern = pattern THEN i
    ELSE FindPattern(patterns, pattern, i + 1)

RemoveAt(seq, i) == SubSeq(seq, 1, i - 1) \o SubSeq(seq, i + 1, Len(seq))

\* size_t arithmetic of the statistics counters is left unbounded here; a
\* decrement of 0 shows as -1
RiftRulesUnregisterPattern(c, pattern) ==
    LET i == FindPattern(SubSeq(c.regex_patterns, 1, c.pattern_count), pattern, 1)
    IN  IF i = 0 THEN [ctx |-> c, ret |-> FALSE]
        ELSE [ctx |-> [c EXCEPT !.regex_patterns = RemoveAt(@, i),
                                !.pattern_count = @ - 1,
                                !.stats.regex_patterns = @ - 1],
              ret |-> TRUE]

RiftRulesClearAll(c) ==
    [c EXCEPT !.regex_patterns = <<>>, !.pattern_count = 0,
              !.stats.regex_patterns = 0]

-----------------------------------------------------------------------------
(* rift_rules_apply_all                                                     *)

\* nothing matched yet at this position
NoMatch == [found_match |-> FALSE, best_match_length |-> 0, best_regex |-> 0]

\* a scan of the ends that stops at the first end pattern i accepts
RECURSIVE TryEndsFirst(_, _, _, _, _, _)
TryEndsFirst(patterns, i, input, pos, end, best) ==
    IF end > Len(input) THEN best
    ELSE IF /\ RiftRegexMatch(patterns[i], SubSeq(input, pos + 1, end))
            /\ end - pos > best.best_match_length
    THEN [found_match |-> TRUE, best_match_length |-> end - pos, best_regex |-> i]
    ELSE TryEndsFirst(patterns, i, input, pos, end + 1, best)

\* for (end = pos + 1; end <= length; end++): progressively longer matches
\* of pattern i
RECURSIVE TryEnds(_, _, _, _, _, _)
TryEnds(patterns, i, input, pos, end, best) ==
    IF end > Len(input) THEN best
    ELSE LET match_length == end - pos
             better == /\ RiftRegexMatch(patterns[i], SubSeq(input, pos + 1, end))
                       /\ match_length > best.best_match_length
         IN  TryEnds(patterns, i, input, pos, end + 1,
                     IF better
                     THEN [found_match |-> TRUE, best_match_length |-> match_length,
                           best_regex |-> i]
                     ELSE best)

\* for (i = 0; i < ctx->pattern_count; i++): all patterns at this position
RECURSIVE TryPatterns(_, _, _, _, _)
TryPatterns(patterns, i, input, pos, best) ==
    IF i > Len(patterns) THEN best
    ELSE TryPatterns(patterns, i + 1, input, pos,
                     TryEnds(patterns, i, input, pos, pos + 1, best))

\* the line and column after the iteration that moved the position to pos:
\* only the byte before pos is looked at
UpdatePosition(st, input, pos) ==
    IF input[pos] = Ord("\n")
    THEN [st EXCEPT !.line_number = @ + 1, !.column_number = 1]
    ELSE [st EXCEPT !.column_number = @ + 1]

\* an iteration that leaves the position alone when the buffer is full
EmitStepFullStalls(c, st, patterns, best) ==
    IF best.found_match /\ st.total_tokens < c.token_capacity
    THEN [st EXCEPT
            !.tokens[st.total_tokens + 1] =
                RiftTokenCreate(patterns[best.best_regex].token_type,
                                st.pos,
                                patterns[best.best_regex].flags),
            !.lexemes = Append(@, best.best_match_length),
            !.total_tokens = @ + 1,
            !.pos = @ + best.best_match_length]
    ELSE IF st.total_tokens < c.token_capacity
    THEN [st EXCEPT
            !.tokens[st.total_tokens + 1] =
                RiftTokenCreate(TOKEN_UNKNOWN, st.pos, 0),
            !.lexemes = Append(@, 1),
            !.total_tokens = @ + 1,
            !.pos = @ + 1]
    ELSE st

\* the locals after the token of this iteration, if any, is emitted
EmitStep(c, st, patterns, best) ==
    IF best.found_match /\ st.total_tokens < c.token_capacity
    THEN [st EXCEPT
            !.tokens[st.total_tokens + 1] =
                RiftTokenCreate(patterns[best.best_regex].token_type,
                                st.pos,
                                patterns[best.best_regex].flags),
            !.lexemes = Append(@, best.best_match_length),
            !.total_tokens = @ + 1,
            !.pos = @ + best.best_match_length]
    ELSE IF st.total_tokens < c.token_capacity
    THEN [st EXCEPT
            !.tokens[st.total_tokens + 1] =
                RiftTokenCreate(TOKEN_UNKNOWN, st.pos, 0),
            !.lexemes = Append(@, 1),
            !.total_tokens = @ + 1,
            !.pos = @ + 1]
    ELSE [st EXCEPT !.pos = @ + 1]

\* the position tracking at the end of the iteration
TrackStep(st, input) == UpdatePosition(st, input, st.pos)

\* the patterns are tried at the position, then the token is emitted
MatchStep(c, input, st, patterns) ==
    EmitStep(c, st, patterns, TryPatterns(patterns, 1, input, st.pos, NoMatch))

\* one iteration of while (pos < length).  st holds the locals pos and
\* total_tokens, the token array, the line and column, and the number of
\* bytes each emitted token stands for.
ApplyAllStep(c, input, st) ==
    TrackStep(MatchStep(c, input, st,
                        SubSeq(c.regex_patterns, 1, c.pattern_count)),
              input)

RECURSIVE ApplyAllLoop(_, _, _, _)
ApplyAllLoop(c, input, length, st) ==
    IF ~(st.pos < length) THEN st
    ELSE ApplyAllLoop(c, input, length, ApplyAllStep(c, input, st))

\* what the locals at the end of the loop leave in the context
ApplyAllResult(c, st) ==
    [ctx |-> [c EXCEPT !.tokens = st.tokens,
                       !.line_number = st.line_number,
                       !.column_number = st.column_number,
                       !.token_count = st.total_tokens],
     ret |-> st.total_tokens,
     lexemes |-> st.lexemes]

\* rift_rules_apply_all: the context after the call, the value returned, and
\* the bytes consumed for each token
RiftRulesApplyAll(c, input, length) ==
    ApplyAllResult(c,
        ApplyAllLoop(c, input, length,
                     [pos |-> 0, total_tokens |-> 0, tokens |-> c.tokens,
                      line_number |-> c.line_number,
                      column_number |-> c.column_number, lexemes |-> <<>>]))

-----------------------------------------------------------------------------
(* tokenizer.c                                                              *)

\* rift_tokenizer_create_with_capacity / _tokenizer_init_context
RiftTokenizerCreateWithCapacity(token_capacity, pattern_capacity) ==
    [tokens |-> [k \in 1..token_capacity |-> ZeroToken],
     token_count |-> 0,
     token_capacity |-> token_capacity,
     input_buffer |-> NULL_PTR,
     input_length |-> 0,
     current_position |-> 0,
     line_number |-> 1,
     column_number |-> 1,
     regex_patterns |-> <<>>,
     pattern_count |-> 0,
     pattern_capacity |-> pattern_capacity,
     thread_safe_mode |-> FALSE,
     error_code |-> RIFT_TOKENIZER_SUCCESS,
     has_error |-> FALSE,
     stats |-> [tokens_processed |-> 0, tokens_generated |-> 0,
                regex_patterns |-> 0, error_count |-> 0],
     global_flags |-> TOKEN_FLAG_NONE,
     strict_mode |-> FALSE]

\* a rift_tokenizer_reset that builds the context anew
RiftTokenizerResetAll(c) ==
    RiftTokenizerCreateWithCapacity(c.token_capacity, c.pattern_capacity)

\* rift_tokenizer_reset
RiftTokenizerReset(c) ==
    [c EXCEPT !.token_count = 0, !.current_position = 0,
              !.line_number = 1, !.column_number = 1,
              !.error_code = RIFT_TOKENIZER_SUCCESS, !.has_error = FALSE,
              !.input_buffer = NULL_PTR, !.input_length = 0]

\* the statistics update after rift_rules_apply_all returned r
UpdateStatistics(r, length) ==
    [ctx |-> [r.ctx EXCEPT
                !.stats.tokens_processed = @ + length,
                !.stats.tokens_generated = @ + (IF r.ret > 0 THEN r.ret ELSE 0),
                !.stats.error_count = @ + (IF r.ret < 0 THEN 1 ELSE 0)],
     ret |-> r.ret,
     lexemes |-> r.lexemes]

\* rift_tokenizer_process_with_flags, the part between lock and unlock
ProcessBody(c, input, length) ==
    UpdateStatistics(
        RiftRulesApplyAll([c EXCEPT !.input_buffer = input, !.input_length = length,
                                    !.current_position = 0, !.token_count = 0],
                          input, length),
        length)

\* rift_tokenizer_process_with_flags: a NULL input is an error; a length of
\* 0 means a NUL-terminated string
RiftTokenizerProcessWithFlags(c, input, length) ==
    IF input = NULL_PTR
    THEN [ctx |-> SetError(c, RIFT_TOKENIZER_ERROR_INVALID_INPUT), ret |-> -1,
          lexemes |-> <<>>]
    ELSE ProcessBody(c, input, IF length = 0 THEN Strlen(input) ELSE length)

\* rift_tokenizer_set_strict_mode
RiftTokenizerSetStrictMode(c, strict) == [c EXCEPT !.strict_mode = strict]

\* rift_tokenizer_set_thread_safe_mode
RiftTokenizerSetThreadSafeMode(c, thread_safe) ==
    [c EXCEPT !.thread_safe_mode = thread_safe]

\* rift_tokenizer_set_global_flags
RiftTokenizerSetGlobalFlags(c, flags) == [c EXCEPT !.global_flags = flags]

\* rift_tokenizer_get_token_at: the context is not written
RiftTokenizerGetTokenAt(c, index) ==
    [ctx |-> c, ret |-> ~(index >= c.token_count)]

\* rift_tokenizer_clear_error
RiftTokenizerClearError(c) ==
    [c EXCEPT !.error_code = RIFT_TOKENIZER_SUCCESS, !.has_error = FALSE]

\* rift_tokenizer_get_tokens read with max_tokens >= token_count: the emitted
\* token sequence
EmittedTokens(c) == SubSeq(c.tokens, 1, c.token_count)

\* an entry of the caller's buffer that no call wrote
Untouched == [type |-> TOKEN_ERROR, mem_ptr |-> 65535, value |-> 255]

\* a NULL tokens argument: a buffer with no entry
NULL_TOKENS == <<>>

\* rift_tokenizer_get_tokens(ctx, tokens, max_tokens): the caller's buffer
\* after the memcpy and the value returned.  tokens is NULL_TOKENS or the
\* buffer; the context is not written.
RiftTokenizerGetTokens(c, tokens, max_tokens) ==
    LET available_tokens == c.token_count
        copy_count == IF available_tokens < max_tokens THEN available_tokens
                      ELSE max_tokens
    IN  [tokens |-> IF tokens # NULL_TOKENS /\ max_tokens > 0
                    THEN [k \in 1..Len(tokens) |->
                             IF k <= copy_count THEN c.tokens[k] ELSE tokens[k]]
                    ELSE tokens,
         ret |-> available_tokens]

-----------------------------------------------------------------------------------------------------------------------------------------------------
(* tokenizer_utilities.c                                                    *)

\* a resize of the token buffer that takes any capacity but 0
RiftTokenizerResizeTokenBufferUnchecked(c, new_capacity, alloc_ok) ==
    IF new_capacity = 0
    THEN [ctx |-> SetError(c, RIFT_TOKENIZER_ERROR_INVALID_INPUT), ret |-> FALSE]
    ELSE IF ~alloc_ok
    THEN [ctx |-> SetError(c, RIFT_TOKENIZER_ERROR_MEMORY_ALLOCATION_FAILED),
          ret |-> FALSE]
    ELSE LET preserve_count == IF c.token_count < new_capacity
                               THEN c.token_count ELSE new_capacity
         IN  [ctx |-> [c EXCEPT
                         !.tokens = [k \in 1..new_capacity |->
                                       IF k <= preserve_count THEN c.tokens[k]
                                       ELSE ZeroToken],
                         !.token_capacity = new_capacity,
                         !.token_count = preserve_count],
              ret |-> TRUE]

\* rift_tokenizer_resize_token_buffer: alloc_ok is whether calloc returned
\* a buffer
RiftTokenizerResizeTokenBuffer(c, new_capacity, alloc_ok) ==
    IF new_capacity = 0 \/ new_capacity > RIFT_TOKENIZER_MAX_TOKENS
    THEN [ctx |-> SetError(c, RIFT_TOKENIZER_ERROR_INVALID_INPUT), ret |-> FALSE]
    ELSE IF ~alloc_ok
    THEN [ctx |-> SetError(c, RIFT_TOKENIZER_ERROR_MEMORY_ALLOCATION_FAILED),
          ret |-> FALSE]
    ELSE LET preserve_count == IF c.token_count < new_capacity
                               THEN c.token_count ELSE new_capacity
         IN  [ctx |-> [c EXCEPT
                         !.tokens = [k \in 1..new_capacity |->
                                       IF k <= preserve_count THEN c.tokens[k]
                                       ELSE ZeroToken],
                         !.token_capacity = new_capacity,
                         !.token_count = preserve_count],
              ret |-> TRUE]

\* a resize of the pattern buffer that does not look at pattern_count
RiftTokenizerResizePatternBufferUnchecked(c, new_capacity, alloc_ok) ==
    IF new_capacity = 0 \/ new_capacity > RIFT_TOKENIZER_MAX_PATTERNS
    THEN [ctx |-> SetError(c, RIFT_TOKENIZER_ERROR_INVALID_INPUT), ret |-> FALSE]
    ELSE IF ~alloc_ok
    THEN [ctx |-> SetError(c, RIFT_TOKENIZER_ERROR_MEMORY_ALLOCATION_FAILED),
          ret |-> FALSE]
    ELSE [ctx |-> [c EXCEPT !.pattern_capacity = new_capacity], ret |-> TRUE]

\* rift_tokenizer_resize_pattern_buffer: alloc_ok is whether calloc returned
\* a buffer
RiftTokenizerResizePatternBuffer(c, new_capacity, alloc_ok) ==
    IF new_capacity = 0 \/ new_capacity > RIFT_TOKENIZER_MAX_PATTERNS
    THEN [ctx |-> SetError(c, RIFT_TOKENIZER_ERROR_INVALID_INPUT), ret |-> FALSE]
    ELSE IF new_capacity < c.pattern_count
    THEN [ctx |-> SetError(c, RIFT_TOKENIZER_ERROR_INVALID_INPUT), ret |-> FALSE]
    ELSE IF ~alloc_ok
    THEN [ctx |-> SetError(c, RIFT_TOKENIZER_ERROR_MEMORY_ALLOCATION_FAILED),
          ret |-> FALSE]
    ELSE [ctx |-> [c EXCEPT !.pattern_capacity = new_capacity], ret |-> TRUE]

-----------------------------------------------------------------------------
(* rift-0.c: the stage-0 router.  Characters are one-character strings, an  *)
(* input is a sequence of them.                                             *)

R_IDENTIFIER == 1
R_NUMBER == 2
R_OPERATOR == 3
R_STRING == 5
R_COMMENT == 6
R_WHITESPACE == 7
R_QUANTUM_TOKEN == 8
R_COLLAPSE_MARKER == 9
R_ENTANGLE_MARKER == 10
R_GOVERNANCE_TAG == 11
R_EOF == 13
RIFT_CRITICAL_MIN == 6

\* sizeof(RiftToken) on an LP64 build
SizeofRiftToken == 64

\* the max_heap rift_stage0_create gives the memory governor
GovernorMaxHeap == 16777216

\* test_buffer[256] of tokenize_input holds at most this many characters
TestBufferMax == 255

LowerCase == {"a", "b", "c", "d", "e", "f", "g", "h", "i", "j", "k", "l", "m",
              "n", "o", "p", "q", "r", "s", "t", "u", "v", "w", "x", "y", "z"}
UpperCase == {"A", "B", "C", "D", "E", "F", "G", "H", "I", "J", "K", "L", "M",
              "N", "O", "P", "Q", "R", "S", "T", "U", "V", "W", "X", "Y", "Z"}
Digit == {"0", "1", "2", "3", "4", "5", "6", "7", "8", "9"}
SpaceClass == {" ", "\t", "\n", "\r", "\f"}
OperatorClass == {"+", "-", "*", "/", "=", "<", ">", "!", "&", "|", "^", "~", "%"}

HasPrefix(w, prefix) ==
    /\ Len(w) >= Len(prefix)
    /\ \A k \in 1..Len(prefix) : w[k] = prefix[k]

\* the body ([^"\\]|\\.)* of the string pattern over w[k..last]
RECURSIVE StringBody(_, _, _)
StringBody(w, k, last) ==
    IF k > last THEN TRUE
    ELSE IF w[k] = "\\" THEN k + 1 <= last /\ StringBody(w, k + 2, last)
    ELSE IF w[k] = "\"" THEN FALSE
    ELSE StringBody(w, k + 1, last)

\* regexec of stage0_patterns[i] (POSIX extended, index from 0) on the word w
Regexec(i, w) ==
    CASE i = 0 -> /\ Len(w) >= 1
                  /\ w[1] \in LowerCase \cup UpperCase \cup {"_"}
                  /\ \A k \in 2..Len(w) :
                        w[k] \in LowerCase \cup UpperCase \cup Digit \cup {"_"}
      [] i = 1 -> \E n \in 1..Len(w) :
                     /\ \A k \in 1..n : w[k] \in Digit
                     /\ \/ n = Len(w)
                        \/ /\ n + 2 <= Len(w)
                           /\ w[n + 1] = "."
                           /\ \A k \in (n + 2)..Len(w) : w[k] \in Digit
      [] i = 2 -> Len(w) = 1 /\ w[1] \in OperatorClass
      [] i = 3 -> /\ HasPrefix(w, <<"@", "q", "u", "a", "n", "t", "u", "m">>)
                  /\ \E n \in 9..Len(w) :
                        /\ w[n] = "{"
                        /\ \A k \in 9..(n - 1) : w[k] \in SpaceClass
      [] i = 4 -> HasPrefix(w, <<"!", "c", "o", "l", "l", "a", "p", "s", "e">>)
      [] i = 5 -> HasPrefix(w, <<"@", "e", "n", "t", "a", "n", "g", "l", "e">>)
      [] i = 6 -> /\ HasPrefix(w, <<"#", "[", "g", "o", "v", ":">>)
                  /\ \E n \in 7..Len(w) : w[n] = "]"
      [] i = 7 -> /\ Len(w) >= 2
                  /\ w[1] = "\"" /\ w[Len(w)] = "\""
                  /\ StringBody(w, 2, Len(w) - 1)
      [] i = 8 -> HasPrefix(w, <<"/", "/">>)
      [] i = 9 -> Len(w) >= 1 /\ \A k \in 1..Len(w) : w[k] \in SpaceClass

\* the type column of stage0_patterns
stage0_patterns ==
    <<R_IDENTIFIER, R_NUMBER, R_OPERATOR, R_QUANTUM_TOKEN, R_COLLAPSE_MARKER,
      R_ENTANGLE_MARKER, R_GOVERNANCE_TAG, R_STRING, R_COMMENT, R_WHITESPACE>>

\* no context / no output
NULL_CONTEXT == [initialized |-> FALSE]
NULL_OUTPUT == [allocated |-> FALSE]

\* rift_stage0_create.  regcomp_ok: whether the regex library of the build
\* compiles every pattern of the table; when it rejects one (glibc reports
\* a range error for the bracket expression of the operator pattern) the
\* context is freed and NULL is returned.
RiftStage0Create(regcomp_ok) ==
    IF ~regcomp_ok THEN NULL_CONTEXT
    ELSE [initialized |-> TRUE,
          pattern_count |-> Len(stage0_patterns),
          current_usage |-> 0,
          max_heap |-> GovernorMaxHeap,
          dual_mode_enabled |-> TRUE,
          quantum_mode_active |-> FALSE]

\* create_token: the token, or NULL_TOKEN when governed_malloc refuses
NULL_TOKEN == [allocated |-> FALSE]

TokenSize(value) == SizeofRiftToken + Len(value) + 1

\* a create_token that leaves is_quantum as it is first set
CreateTokenUnflagged(c, type, value, line, col) ==
    IF c.current_usage + TokenSize(value) > c.max_heap THEN NULL_TOKEN
    ELSE [allocated |-> TRUE, type |-> type, value |-> value, line |-> line,
          column |-> col, is_quantum |-> FALSE]

CreateToken(c, type, value, line, col) ==
    IF c.current_usage + TokenSize(value) > c.max_heap THEN NULL_TOKEN
    ELSE [allocated |-> TRUE, type |-> type, value |-> value, line |-> line,
          column |-> col,
          is_quantum |-> type \in {R_QUANTUM_TOKEN, R_COLLAPSE_MARKER,
                                   R_ENTANGLE_MARKER}]

\* the test string tokenize_input extracts at ptr: up to the next space,
\* tab, line-feed or the end of the input, at most TestBufferMax characters
RECURSIVE TestLen(_, _, _)
TestLen(input, ptr, test_len) ==
    IF ptr + test_len <= Len(input)
       /\ input[ptr + test_len] \notin {" ", "\n", "\t"}
       /\ test_len < TestBufferMax
    THEN TestLen(input, ptr, test_len + 1)
    ELSE test_len

\* for (i = 0; i < ctx->pattern_count; i++): the first pattern that matches
\* the test string, pattern_count when none does
RECURSIVE FirstMatch(_, _, _)
FirstMatch(pattern_count, w, i) ==
    IF i >= pattern_count THEN pattern_count
    ELSE IF Len(w) > 0 /\ Regexec(i, w) THEN i
    ELSE FirstMatch(pattern_count, w, i + 1)

\* governed_malloc / governed_free: the usage the governor records
GovernedMalloc(c, size) == [c EXCEPT !.current_usage = @ + size]
GovernedFree(c, size) == [c EXCEPT !.current_usage = @ - size]

\* the quantum mode macro check made on a matched test string
ModeAfter(c, w) ==
    IF w = <<"!", "q", "u", "a", "n", "t", "u", "m">>
    THEN [c EXCEPT !.quantum_mode_active = TRUE]
    ELSE IF w = <<"!", "c", "l", "a", "s", "s", "i", "c">>
    THEN [c EXCEPT !.quantum_mode_active = FALSE]
    ELSE c

\* a pattern matched the test string w and the token was created
TokenMatched(st, w, token) ==
    IF ~token.allocated THEN [st EXCEPT !.failed = TRUE]
    ELSE [st EXCEPT !.ctx = ModeAfter(GovernedMalloc(@, TokenSize(w)), w),
                    !.tokens = Append(@, token),
                    !.ptr = @ + Len(w),
                    !.col = @ + Len(w)]

\* the pattern loop gave i for the test string w
WordStep(st, w, i) ==
    IF i < st.ctx.pattern_count
    THEN TokenMatched(st, w, CreateToken(st.ctx, stage0_patterns[i + 1], w,
                                         st.line, st.col))
    ELSE [st EXCEPT !.ptr = @ + 1, !.col = @ + 1]

TestString(st, input) ==
    SubSeq(input, st.ptr, st.ptr + TestLen(input, st.ptr, 0) - 1)

MatchWord(st, w) == WordStep(st, w, FirstMatch(st.ctx.pattern_count, w, 0))

\* while (*ptr): ptr is the index of the current character, from 1
RECURSIVE TokenizeLoop(_, _)
TokenizeLoop(st, input) ==
    IF st.failed \/ st.ptr > Len(input) THEN st
    ELSE IF input[st.ptr] \in {" ", "\t"}
    THEN TokenizeLoop([st EXCEPT !.col = @ + 1, !.ptr = @ + 1], input)
    ELSE IF input[st.ptr] = "\n"
    THEN TokenizeLoop([st EXCEPT !.line = @ + 1, !.col = 1, !.ptr = @ + 1], input)
    ELSE TokenizeLoop(MatchWord(st, TestString(st, input)), input)

\* the EOF token added after the loop, when it can be created
EofAdded(st, eof) ==
    IF st.failed \/ ~eof.allocated THEN st
    ELSE [st EXCEPT !.ctx = GovernedMalloc(@, TokenSize(eof.value)),
                    !.tokens = Append(@, eof)]

AddEof(st) ==
    EofAdded(st, CreateToken(st.ctx, R_EOF, <<"E", "O", "F">>, st.line, st.col))

\* tokenize_input: the context after the call, the tokens, and failed when
\* NULL is returned.  calloc and realloc of the token array are taken to
\* succeed.
TokenizeInput(c, input) ==
    AddEof(TokenizeLoop([ptr |-> 1, line |-> 1, col |-> 1, tokens |-> <<>>,
                         ctx |-> c, failed |-> FALSE], input))

\* the line process_stage0 formats for tokens[i]
TokenLine(tokens, i) ==
    [index |-> i, type |-> tokens[i + 1].type, value |-> tokens[i + 1].value,
     line |-> tokens[i + 1].line, column |-> tokens[i + 1].column,
     quantum |-> tokens[i + 1].is_quantum]

\* a routing loop that copies every token to both channels
RouteTokensToBoth(tokens, quantum_mode_active, to_quantum, i) ==
    [k \in 1..(Len(tokens) - i) |-> TokenLine(tokens, i + k - 1)]

\* for (i = 0; i < token_count; i++): the lines of one channel, in order
RECURSIVE RouteTokens(_, _, _, _)
RouteTokens(tokens, quantum_mode_active, to_quantum, i) ==
    IF i >= Len(tokens) THEN <<>>
    ELSE (IF (tokens[i + 1].is_quantum \/ quantum_mode_active) = to_quantum
          THEN <<TokenLine(tokens, i)>> ELSE <<>>)
         \o RouteTokens(tokens, quantum_mode_active, to_quantum, i + 1)

\* free_token for every token
RECURSIVE FreeTokens(_, _, _)
FreeTokens(c, tokens, i) ==
    IF i > Len(tokens) THEN c
    ELSE FreeTokens(GovernedFree(c, TokenSize(tokens[i].value)), tokens, i + 1)

\* process_stage0 once tokenize_input returned tk.  The channel buffers of
\* 4096 bytes are far from full for the inputs of the model, so the
\* metadata is always appended; the channels are kept as lines, not bytes.
Stage0Output(tk) ==
    IF tk.failed
    THEN [ctx |-> tk.ctx, tokens |-> <<>>,
          output |-> [allocated |-> TRUE, classic_channel |-> <<>>,
                      quantum_channel |-> <<>>, error_level |-> RIFT_CRITICAL_MIN,
                      metadata |-> [tokens |-> 0, memory_usage |-> 0]]]
    ELSE [ctx |-> FreeTokens(tk.ctx, tk.tokens, 1), tokens |-> tk.tokens,
          output |-> [allocated |-> TRUE,
                      classic_channel |->
                          RouteTokens(tk.tokens, tk.ctx.quantum_mode_active, FALSE, 0),
                      quantum_channel |->
                          RouteTokens(tk.tokens, tk.ctx.quantum_mode_active, TRUE, 0),
                      error_level |-> 0,
                      metadata |-> [tokens |-> Len(tk.tokens),
                                    memory_usage |-> tk.ctx.current_usage]]]

\* process_stage0
ProcessStage0(c, input) ==
    IF ~c.initialized THEN [ctx |-> c, tokens |-> <<>>, output |-> NULL_OUTPUT]
    ELSE Stage0Output(TokenizeInput(c, input))

\* A long input: n times the word x and a space, then one word of
\* TestBufferMax letters.  Every word is an identifier, so each iteration of
\* the loop of tokenize_input calls create_token once, and the tokens before
\* the one governed_malloc refuses stay allocated when NULL is returned.
LongCounts == (MaxLongWords - 2)..MaxLongWords

LongWord == [k \in 1..TestBufferMax |-> "y"]

\* how many of the n words x the governor has room for
LongFit(c, n) ==
    IF (c.max_heap - c.current_usage) \div TokenSize(<<"x">>) < n
    THEN (c.max_heap - c.current_usage) \div TokenSize(<<"x">>)
    ELSE n

\* the context when the loop stops: one governed_malloc for each word that
\* fitted
AfterLongRun(c, n) == GovernedMalloc(c, LongFit(c, n) * TokenSize(<<"x">>))

\* create_token returns NULL for one of the words
LongInputFails(c, n) ==
    \/ LongFit(c, n) < n
    \/ ~CreateToken(AfterLongRun(c, n), R_IDENTIFIER, LongWord, 1, 2 * n + 1).allocated

\* process_stage0 on a long input that fails
ProcessStage0Long(c, n) ==
    Stage0Output([failed |-> TRUE, ctx |-> AfterLongRun(c, n), tokens |-> <<>>])

\* the words the inputs of the model are made of
RouterWords ==
    { <<"x">>, <<"4", "2">>, <<"+">>,
      <<"@", "q", "u", "a", "n", "t", "u", "m", "{">>,
      <<"!", "c", "o", "l", "l", "a", "p", "s", "e">>,
      <<"@", "e", "n", "t", "a", "n", "g", "l", "e">>,
      <<"!", "q", "u", "a", "n", "t", "u", "m">>,
      <<"!", "c", "l", "a", "s", "s", "i", "c">>,
      <<"#", "[", "g", "o", "v", ":", "a", "]">>,
      <<"\"", "s", "\"">>, <<"/", "/", "c">> }

\* up to MaxWords words, separated by a space or a line-feed
RECURSIVE RouterInputsOf(_)
RouterInputsOf(n) ==
    IF n = 0 THEN {<<>>}
    ELSE RouterInputsOf(n - 1)
         \cup RouterWords
         \cup {s \o <<sep>> \o w : s \in RouterInputsOf(n - 1) \ {<<>>},
                                    sep \in {" ", "\n"}, w \in RouterWords}

RouterInputs == RouterInputsOf(MaxWords)

-----------------------------------------------------------------------------
(* tokenizer_match.c: the R-pattern recogniser and simple_match.  A C string *)
(* is the sequence of its bytes before the terminating NUL; CharAt gives 0   *)
(* at the terminator.                                                         *)

\* no DFAStateMachine (dfa_create returned NULL)
NULL_MACHINE == [allocated |-> FALSE, state |-> DFA_STATE_INIT]

\* dfa_create
DfaCreate(alloc_ok) ==
    IF alloc_ok THEN [allocated |-> TRUE, state |-> DFA_STATE_INIT] ELSE NULL_MACHINE

Quotes == {Ord("\""), Ord("'")}

\* a switch that stays in DFA_STATE_ACCEPT whatever follows
DfaSwitchStayAccepting(state, c) ==
    CASE state = DFA_STATE_INIT ->
           IF c = Ord("R") THEN DFA_STATE_R ELSE DFA_STATE_ERROR
      [] state = DFA_STATE_R ->
           IF c \in Quotes THEN DFA_STATE_QUOTE ELSE DFA_STATE_ERROR
      [] state \in {DFA_STATE_QUOTE, DFA_STATE_CONTENT} ->
           IF c \in Quotes THEN DFA_STATE_ACCEPT ELSE DFA_STATE_CONTENT
      [] state = DFA_STATE_ACCEPT -> DFA_STATE_ACCEPT

\* the switch of dfa_process_char: the state after c
DfaSwitch(state, c) ==
    CASE state = DFA_STATE_INIT ->
           IF c = Ord("R") THEN DFA_STATE_R ELSE DFA_STATE_ERROR
      [] state = DFA_STATE_R ->
           IF c \in Quotes THEN DFA_STATE_QUOTE ELSE DFA_STATE_ERROR
      [] state = DFA_STATE_QUOTE ->
           IF c \in Quotes THEN DFA_STATE_ACCEPT ELSE DFA_STATE_CONTENT
      [] state = DFA_STATE_CONTENT ->
           IF c \in Quotes THEN DFA_STATE_ACCEPT ELSE DFA_STATE_CONTENT
      [] state = DFA_STATE_ACCEPT -> DFA_STATE_ERROR

\* dfa_process_char: the machine after the call and the value returned
DfaProcessChar(dfa_machine, c) ==
    IF ~dfa_machine.allocated \/ dfa_machine.state = DFA_STATE_ERROR
    THEN [machine |-> dfa_machine, ret |-> FALSE]
    ELSE [machine |-> [dfa_machine EXCEPT !.state = DfaSwitch(@, c)],
          ret |-> DfaSwitch(dfa_machine.state, c) # DFA_STATE_ERROR]

\* dfa_is_accepting
DfaIsAccepting(dfa_machine) ==
    dfa_machine.allocated /\ dfa_machine.state = DFA_STATE_ACCEPT

\* dfa_reset
DfaReset(dfa_machine) ==
    IF dfa_machine.allocated THEN [dfa_machine EXCEPT !.state = DFA_STATE_INIT]
    ELSE dfa_machine

\* isalpha, isdigit, isalnum and tolower of the C locale
IsAlpha(c) == c \in 65..90 \cup 97..122
IsDigit(c) == c \in 48..57
IsAlnum(c) == IsAlpha(c) \/ IsDigit(c)
ToLower(c) == IF c \in 65..90 THEN c + 32 ELSE c

\* strncasecmp(text, word, n) == 0, word being n bytes long
Strncasecmp(text, word, n) ==
    \A k \in 0..(n - 1) : ToLower(CharAt(text, k)) = ToLower(CharAt(word, k))

\* classify_null_nil_semantic
ClassifyNullNilSemantic(text, len) ==
    IF text = NULL_PTR THEN TOKEN_UNKNOWN
    ELSE IF len = 4 /\ Strncasecmp(text, CStr(<<"N", "U", "L", "L">>), 4)
    THEN TOKEN_NULL_KEYWORD
    ELSE IF len = 3 /\ Strncasecmp(text, CStr(<<"n", "i", "l">>), 3)
    THEN TOKEN_NIL_KEYWORD
    ELSE TOKEN_UNKNOWN

\* while (p[len] is in the set) len++
RECURSIVE Span(_, _, _)
Span(p, len, set) ==
    IF CharAt(p, len) \in set THEN Span(p, len + 1, set) ELSE len

\* strchr(chars, c) != NULL: the terminating NUL of chars is found for c = 0
Strchr(chars, c) == c = 0 \/ \E k \in 1..Len(chars) : Ord(chars[k]) = c

WordBytes == {c \in Byte : IsAlnum(c)} \cup {Ord("_")}

\* the identifier branch: the keyword kind replaces TOKEN_IDENTIFIER
IdentifierToken(p, len) ==
    [token |-> [RiftTokenCreate(TOKEN_IDENTIFIER, 0, len) EXCEPT
                  !.type = IF ClassifyNullNilSemantic(p, len) # TOKEN_UNKNOWN
                           THEN ClassifyNullNilSemantic(p, len) ELSE @],
     ret |-> len]

\* a branch that ends after the closing quote q when there is one
QuotedToken(p, type, i, q) ==
    [token |-> RiftTokenCreate(type, 0, IF CharAt(p, i) = q THEN i + 1 ELSE i),
     ret |-> IF CharAt(p, i) = q THEN i + 1 ELSE i]

\* simple_match: the branches in the order of the source
SimpleMatch(p) ==
    IF IsAlpha(CharAt(p, 0)) \/ CharAt(p, 0) = Ord("_")
    THEN IdentifierToken(p, Span(p, 1, WordBytes))
    ELSE IF IsDigit(CharAt(p, 0))
    THEN [token |-> RiftTokenCreate(TOKEN_LITERAL_NUMBER, 0,
                                    Span(p, 1, {c \in Byte : IsDigit(c)})),
          ret |-> Span(p, 1, {c \in Byte : IsDigit(c)})]
    ELSE IF CharAt(p, 0) = Ord("\"")
    THEN QuotedToken(p, TOKEN_LITERAL_STRING,
                     Span(p, 1, Byte \ {0, Ord("\"")}), Ord("\""))
    ELSE IF CharAt(p, 0) = Ord("R") /\ CharAt(p, 1) \in Quotes
    THEN QuotedToken(p, TOKEN_R_PATTERN,
                     Span(p, 2, Byte \ {0, CharAt(p, 1)}), CharAt(p, 1))
    ELSE IF Strchr(<<"+", "-", "*", "/", "=", "<", ">", "!">>, CharAt(p, 0))
    THEN [token |-> RiftTokenCreate(TOKEN_OPERATOR, 0, 1), ret |-> 1]
    ELSE IF Strchr(<<"(", ")", "{", "}", "[", "]">>, CharAt(p, 0))
    THEN [token |-> RiftTokenCreate(TOKEN_DELIMITER, 0, 1), ret |-> 1]
    ELSE [token |-> RiftTokenCreate(TOKEN_UNKNOWN, 0, 1), ret |-> 1]

\* match_token_pattern: -1 for a NULL src, the token is then not written
MatchTokenPattern(p) ==
    IF p = NULL_PTR THEN [token |-> ZeroToken, ret |-> -1] ELSE SimpleMatch(p)

-----------------------------------------------------------------------------
(* The sequential specification: one caller, one context *)

Threads == {1, 2}

\* the locals of a call: the operation, its input, what get_tokens read and
\* copied, and the value returned
NoLocal == [op |-> "none", input |-> <<>>, count |-> 0, out |-> <<>>, ret |-> 0]

NoSnap == [input |-> NULL_PTR, patterns |-> <<>>, tokens |-> <<>>,
           lexemes |-> <<>>, line_number |-> 0, column_number |-> 0]

NoThreads ==
    /\ pc = [t \in Threads |-> "idle"]
    /\ mutex = 0
    /\ local = [t \in Threads |-> NoLocal]

\* no input given to process_stage0 yet
NoInput == [long |-> FALSE, text |-> <<>>]

NoRouter ==
    /\ stage0 = NULL_CONTEXT
    /\ output = NULL_OUTPUT
    /\ scanned = <<>>
    /\ calls = 0
    /\ handed = NoInput

NoCompile ==
    /\ composition = NULL_REGEX
    /\ subject = NULL_PTR
    /\ matched = FALSE
    /\ destroyed = NotDestroyed

NoDfa ==
    /\ states = NoStates
    /\ last_add = [called |-> FALSE]

NoMatcher ==
    /\ src = NULL_PTR
    /\ out_token = [called |-> FALSE]
    /\ machine = NULL_MACHINE
    /\ fed = <<>>
    /\ answer = [op |-> "none", ret |-> FALSE]

\* no character-class range being compiled
NoRange == [running |-> FALSE]

NoBuffer ==
    /\ fetched = [called |-> FALSE]
    /\ loop = [running |-> FALSE]
    /\ range = NoRange

InitCtx ==
    /\ \E tc \in 1..MaxTokenCapacity :
          ctx = RiftTokenizerCreateWithCapacity(tc, MaxPatternCapacity)
    /\ lexemes = <<>>
    /\ result = 0
    /\ last_op = "create"

Init ==
    /\ InitCtx
    /\ snap = NoSnap
    /\ phase = "none"
    /\ NoThreads
    /\ NoRouter
    /\ NoCompile
    /\ NoDfa
    /\ NoMatcher
    /\ NoBuffer

Registered(r) ==
    /\ ctx' = r.ctx
    /\ result' = (IF r.ret THEN 1 ELSE 0)
    /\ last_op' = "register"
    /\ UNCHANGED lexemes

\* the caller registers a pattern
DoRegister ==
    \E p \in PatternCatalogue :
       Registered(RiftRulesRegisterPattern(ctx, p.pattern, p.token_type,
                                           p.flags, "ok"))

Scanned(r) ==
    /\ ctx' = r.ctx
    /\ result' = r.ret
    /\ lexemes' = r.lexemes
    /\ last_op' = "scan"

\* the caller scans the input with the length given (0: NUL-terminated)
DoScan(input, length) == Scanned(RiftTokenizerProcessWithFlags(ctx, input, length))

\* the statistics counters are unbounded: the model stops scanning once
\* MaxBytesScanned bytes went through
WithinBudget(input) ==
    ctx.stats.tokens_processed + Len(input) <= MaxBytesScanned

DoReset ==
    /\ ctx' = RiftTokenizerReset(ctx)
    /\ result' = 1
    /\ last_op' = "reset"
    /\ UNCHANGED lexemes

Register == DoRegister /\ UNCHANGED <<snapVars, threadVars, routerVars, compileVars, dfaVars, matchVars, bufferVars>>

Scan ==
    /\ \E input \in Inputs : \E length \in {0, Len(input)} :
          WithinBudget(input) /\ DoScan(input, length)
    /\ UNCHANGED <<snapVars, threadVars, routerVars, compileVars, dfaVars, matchVars, bufferVars>>

ScanNull == DoScan(NULL_PTR, 0) /\ UNCHANGED <<snapVars, threadVars, routerVars, compileVars, dfaVars, matchVars, bufferVars>>

Reset == DoReset /\ UNCHANGED <<snapVars, threadVars, routerVars, compileVars, dfaVars, matchVars, bufferVars>>

SetStrictMode ==
    /\ \E strict \in BOOLEAN : ctx' = RiftTokenizerSetStrictMode(ctx, strict)
    /\ result' = 1
    /\ last_op' = "set_strict_mode"
    /\ UNCHANGED <<lexemes, snapVars, threadVars, routerVars, compileVars, dfaVars, matchVars, bufferVars>>

Next == Register \/ Scan \/ ScanNull \/ Reset \/ SetStrictMode

Spec == Init /\ [][Next]_vars

-----------------------------------------------------------------------------
(* Two scans of one input: a scan whose outcome is kept, then a reset, a    *)
(* change of the token capacity or nothing, then a scan of the same input.  *)

InitSnap ==
    /\ InitCtx
    /\ snap = NoSnap
    /\ phase = "setup"
    /\ NoThreads
    /\ NoRouter
    /\ NoCompile
    /\ NoDfa
    /\ NoMatcher
    /\ NoBuffer

SetupRegister ==
    /\ phase = "setup"
    /\ DoRegister
    /\ UNCHANGED <<snapVars, threadVars, routerVars, compileVars, dfaVars, matchVars, bufferVars>>

SetupScan ==
    /\ phase = "setup"
    /\ \E input \in Inputs : WithinBudget(input) /\ DoScan(input, Len(input))
    /\ UNCHANGED <<snapVars, threadVars, routerVars, compileVars, dfaVars, matchVars, bufferVars>>

SetupReset ==
    /\ phase = "setup"
    /\ last_op = "scan"
    /\ DoReset
    /\ UNCHANGED <<snapVars, threadVars, routerVars, compileVars, dfaVars, matchVars, bufferVars>>

FirstScan ==
    /\ phase = "setup"
    /\ \E input \in Inputs : DoScan(input, Len(input))
    /\ snap' = [input |-> ctx'.input_buffer,
                patterns |-> SubSeq(ctx'.regex_patterns, 1, ctx'.pattern_count),
                tokens |-> EmittedTokens(ctx'),
                lexemes |-> lexemes',
                line_number |-> ctx'.line_number,
                column_number |-> ctx'.column_number]
    /\ phase' = "first"
    /\ UNCHANGED <<threadVars, routerVars, compileVars, dfaVars, matchVars, bufferVars>>

ResetAfterFirst ==
    /\ phase = "first"
    /\ DoReset
    /\ phase' = "reset"
    /\ UNCHANGED <<snap, threadVars, routerVars, compileVars, dfaVars, matchVars, bufferVars>>

Resized(r) ==
    /\ ctx' = r.ctx
    /\ result' = (IF r.ret THEN 1 ELSE 0)
    /\ last_op' = "resize_token_buffer"

ResizeBetween ==
    /\ phase \in {"first", "reset"}
    /\ \E new_capacity \in 1..MaxTokenCapacity :
          /\ new_capacity # ctx.token_capacity
          /\ Resized(RiftTokenizerResizeTokenBuffer(ctx, new_capacity, TRUE))
    /\ phase' = "resized"
    /\ UNCHANGED <<lexemes, snap, threadVars, routerVars, compileVars, dfaVars, matchVars, bufferVars>>

SecondScan ==
    /\ phase \in {"first", "reset", "resized"}
    /\ DoScan(snap.input, Len(snap.input))
    /\ phase' = (IF phase = "reset" THEN "rescan" ELSE "second")
    /\ UNCHANGED <<snap, threadVars, routerVars, compileVars, dfaVars, matchVars, bufferVars>>

NextSnap ==
    \/ SetupRegister \/ SetupScan \/ SetupReset
    \/ FirstScan \/ ResetAfterFirst \/ ResizeBetween \/ SecondScan

SpecSnap == InitSnap /\ [][NextSnap]_vars

-----------------------------------------------------------------------------
(* Two threads calling into one context.  A call is a sequence of steps:    *)
(* each atomic_load of thread_safe_mode, each pthread call and each access  *)
(* to the context between them is a step of its own.                        *)
(*   check        the atomic_load at the head of a locking operation        *)
(*   lock         the atomic_load inside rift_tokenizer_lock                *)
(*   acquire      pthread_mutex_lock                                        *)
(*   body, apply  the accesses to the context                               *)
(*   unlock_check the atomic_load before the unlock                         *)
(*   unlock       the atomic_load inside rift_tokenizer_unlock              *)
(*   release      pthread_mutex_unlock                                      *)
(*   get_count, get_copy   the two reads of rift_tokenizer_get_tokens       *)

\* the context the threads share: created, and at most one pattern
\* registered, before the threads start
InitThreads ==
    /\ \E registry \in {<<>>, <<CStr(<<"[", "a", "-", "z", "]", "+">>)>>} :
          ctx = (IF registry = <<>>
                 THEN RiftTokenizerCreateWithCapacity(MaxTokenCapacity,
                                                      MaxPatternCapacity)
                 ELSE RiftRulesRegisterPattern(
                          RiftTokenizerCreateWithCapacity(MaxTokenCapacity,
                                                          MaxPatternCapacity),
                          registry[1], TOKEN_IDENTIFIER, TOKEN_FLAG_NONE,
                          "ok").ctx)
    /\ lexemes = <<>>
    /\ result = 0
    /\ last_op = "create"
    /\ snap = NoSnap
    /\ phase = "none"
    /\ NoThreads
    /\ NoRouter
    /\ NoCompile
    /\ NoDfa
    /\ NoMatcher
    /\ NoBuffer

\* the inputs the threads scan: one byte each
ThreadInputs == {input \in Inputs : Len(input) = 1}

Goto(t, label) == pc' = [pc EXCEPT ![t] = label]

Return(t, ret) ==
    /\ pc' = [pc EXCEPT ![t] = "idle"]
    /\ local' = [local EXCEPT ![t].ret = ret]

\* rift_tokenizer_process_with_flags is called
CallScan ==
    \E t \in Threads : \E input \in ThreadInputs :
       /\ pc[t] = "idle"
       /\ WithinBudget(input)
       /\ local' = [local EXCEPT ![t] = [NoLocal EXCEPT !.op = "scan",
                                                        !.input = input]]
       /\ Goto(t, "check")
       /\ UNCHANGED <<ctxVars, snapVars, mutex, routerVars, compileVars, dfaVars, matchVars, bufferVars>>

\* rift_tokenizer_reset is called
CallReset ==
    \E t \in Threads :
       /\ pc[t] = "idle"
       /\ local' = [local EXCEPT ![t] = [NoLocal EXCEPT !.op = "reset"]]
       /\ Goto(t, "check")
       /\ UNCHANGED <<ctxVars, snapVars, mutex, routerVars, compileVars, dfaVars, matchVars, bufferVars>>

\* rift_tokenizer_get_tokens is called
CallGetTokens ==
    \E t \in Threads :
       /\ pc[t] = "idle"
       /\ local' = [local EXCEPT ![t] = [NoLocal EXCEPT !.op = "get_tokens"]]
       /\ Goto(t, "get_count")
       /\ UNCHANGED <<ctxVars, snapVars, mutex, routerVars, compileVars, dfaVars, matchVars, bufferVars>>

\* rift_tokenizer_set_thread_safe_mode: one atomic_store, no lock
SetThreadSafeMode ==
    \E t \in Threads : \E thread_safe \in BOOLEAN :
       /\ pc[t] = "idle"
       /\ ctx' = [ctx EXCEPT !.thread_safe_mode = thread_safe]
       /\ UNCHANGED <<lexemes, result, last_op, snapVars, threadVars, routerVars, compileVars, dfaVars, matchVars, bufferVars>>

CheckMode ==
    \E t \in Threads :
       /\ pc[t] = "check"
       /\ Goto(t, IF ctx.thread_safe_mode THEN "lock" ELSE "body")
       /\ UNCHANGED <<ctxVars, snapVars, mutex, local, routerVars, compileVars, dfaVars, matchVars, bufferVars>>

\* rift_tokenizer_lock returns false when the mode is off by now, and the
\* operation returns its failure value
LockLoad ==
    \E t \in Threads :
       /\ pc[t] = "lock"
       /\ IF ctx.thread_safe_mode
          THEN Goto(t, "acquire") /\ UNCHANGED local
          ELSE Return(t, -1)
       /\ UNCHANGED <<ctxVars, snapVars, mutex, routerVars, compileVars, dfaVars, matchVars, bufferVars>>

Acquire ==
    \E t \in Threads :
       /\ pc[t] = "acquire"
       /\ mutex = 0
       /\ mutex' = t
       /\ Goto(t, "body")
       /\ UNCHANGED <<ctxVars, snapVars, local, routerVars, compileVars, dfaVars, matchVars, bufferVars>>

\* the scan records its input in the context and clears the token count
ScanBegin ==
    \E t \in Threads :
       /\ pc[t] = "body" /\ local[t].op = "scan"
       /\ ctx' = [ctx EXCEPT !.input_buffer = local[t].input,
                             !.input_length = Len(local[t].input),
                             !.current_position = 0, !.token_count = 0]
       /\ Goto(t, "apply")
       /\ UNCHANGED <<lexemes, result, last_op, snapVars, mutex, local, routerVars, compileVars, dfaVars, matchVars, bufferVars>>

Applied(t, r) ==
    /\ ctx' = r.ctx
    /\ lexemes' = r.lexemes
    /\ local' = [local EXCEPT ![t].ret = r.ret]

\* rift_rules_apply_all on the arguments of the call, then the statistics
ScanApply ==
    \E t \in Threads :
       /\ pc[t] = "apply"
       /\ Applied(t, UpdateStatistics(
                        RiftRulesApplyAll(ctx, local[t].input, Len(local[t].input)),
                        Len(local[t].input)))
       /\ Goto(t, "unlock_check")
       /\ UNCHANGED <<result, last_op, snapVars, mutex, routerVars, compileVars, dfaVars, matchVars, bufferVars>>

ResetBody ==
    \E t \in Threads :
       /\ pc[t] = "body" /\ local[t].op = "reset"
       /\ ctx' = RiftTokenizerReset(ctx)
       /\ local' = [local EXCEPT ![t].ret = 1]
       /\ Goto(t, "unlock_check")
       /\ UNCHANGED <<lexemes, result, last_op, snapVars, mutex, routerVars, compileVars, dfaVars, matchVars, bufferVars>>

UnlockCheck ==
    \E t \in Threads :
       /\ pc[t] = "unlock_check"
       /\ Goto(t, IF ctx.thread_safe_mode THEN "unlock" ELSE "idle")
       /\ UNCHANGED <<ctxVars, snapVars, mutex, local, routerVars, compileVars, dfaVars, matchVars, bufferVars>>

UnlockLoad ==
    \E t \in Threads :
       /\ pc[t] = "unlock"
       /\ Goto(t, IF ctx.thread_safe_mode THEN "release" ELSE "idle")
       /\ UNCHANGED <<ctxVars, snapVars, mutex, local, routerVars, compileVars, dfaVars, matchVars, bufferVars>>

\* pthread_mutex_unlock.  Unlocking a default mutex the thread does not own
\* is undefined: the mutex is released or left as it is.
Release ==
    \E t \in Threads :
       /\ pc[t] = "release"
       /\ IF mutex = t THEN mutex' = 0 ELSE mutex' \in {mutex, 0}
       /\ Goto(t, "idle")
       /\ UNCHANGED <<ctxVars, snapVars, local, routerVars, compileVars, dfaVars, matchVars, bufferVars>>

\* rift_tokenizer_get_tokens reads token_count ...
GetCount ==
    \E t \in Threads :
       /\ pc[t] = "get_count"
       /\ local' = [local EXCEPT ![t].count = ctx.token_count]
       /\ Goto(t, "get_copy")
       /\ UNCHANGED <<ctxVars, snapVars, mutex, routerVars, compileVars, dfaVars, matchVars, bufferVars>>

\* ... and copies that many tokens (max_tokens is the token capacity)
GetCopy ==
    \E t \in Threads :
       /\ pc[t] = "get_copy"
       /\ local' = [local EXCEPT ![t].out = SubSeq(ctx.tokens, 1, local[t].count),
                                 ![t].ret = local[t].count]
       /\ Goto(t, "idle")
       /\ UNCHANGED <<ctxVars, snapVars, mutex, routerVars, compileVars, dfaVars, matchVars, bufferVars>>

NextThreads ==
    \/ CallScan \/ CallReset \/ CallGetTokens \/ SetThreadSafeMode
    \/ CheckMode \/ LockLoad \/ Acquire \/ ScanBegin \/ ScanApply \/ ResetBody
    \/ UnlockCheck \/ UnlockLoad \/ Release \/ GetCount \/ GetCopy

SpecThreads == InitThreads /\ [][NextThreads]_vars

-----------------------------------------------------------------------------
(* The stage-0 router: a context, and inputs processed one after the other *)

InitRouter ==
    /\ ctx = RiftTokenizerCreateWithCapacity(MaxTokenCapacity, MaxPatternCapacity)
    /\ lexemes = <<>>
    /\ result = 0
    /\ last_op = "create"
    /\ snap = NoSnap
    /\ phase = "none"
    /\ NoThreads
    /\ \E regcomp_ok \in BOOLEAN : stage0 = RiftStage0Create(regcomp_ok)
    /\ output = NULL_OUTPUT
    /\ scanned = <<>>
    /\ calls = 0
    /\ handed = NoInput
    /\ NoCompile
    /\ NoDfa
    /\ NoMatcher
    /\ NoBuffer

Processed(r) ==
    /\ stage0' = r.ctx
    /\ output' = r.output
    /\ scanned' = r.tokens
    /\ calls' = calls + 1

Process ==
    /\ calls < MaxCalls
    /\ \E input \in RouterInputs :
          /\ Processed(ProcessStage0(stage0, input))
          /\ handed' = [long |-> FALSE, text |-> input]
    /\ UNCHANGED <<ctxVars, snapVars, threadVars, compileVars, dfaVars, matchVars, bufferVars>>

\* process_stage0 on an input that tokenize_input gives up on
ProcessLong ==
    /\ calls < MaxCalls
    /\ stage0.initialized
    /\ \E n \in LongCounts :
          /\ LongInputFails(stage0, n)
          /\ Processed(ProcessStage0Long(stage0, n))
          /\ handed' = [long |-> TRUE, text |-> <<>>]
    /\ UNCHANGED <<ctxVars, snapVars, threadVars, compileVars, dfaVars, matchVars,
                   bufferVars>>

NextRouter == Process \/ ProcessLong

SpecRouter == InitRouter /\ [][NextRouter]_vars

-----------------------------------------------------------------------------
(* The pattern compiler on its own: compile a pattern, match byte strings *)

InitCompile ==
    /\ ctx = RiftTokenizerCreateWithCapacity(MaxTokenCapacity, MaxPatternCapacity)
    /\ lexemes = <<>>
    /\ result = 0
    /\ last_op = "create"
    /\ snap = NoSnap
    /\ phase = "none"
    /\ NoThreads
    /\ NoRouter
    /\ NoCompile
    /\ NoDfa
    /\ NoMatcher
    /\ NoBuffer

Compiled(r) ==
    /\ composition' = r
    /\ subject' = NULL_PTR
    /\ matched' = FALSE
    /\ destroyed' = NotDestroyed

\* rift_regex_compile(pattern, flags)
Compile ==
    /\ \E pattern \in CompileTexts, alloc \in {"ok", "state", "regex"},
          flags \in {TOKEN_FLAG_NONE, TOKEN_FLAG_MULTILINE} :
          Compiled(RiftRegexCompileGraph(pattern, flags, alloc))
    /\ UNCHANGED <<ctxVars, snapVars, threadVars, routerVars, dfaVars, matchVars, bufferVars>>

\* rift_regex_match(regex, input, length)
Match ==
    /\ composition # NULL_REGEX
    /\ ~destroyed.called
    /\ \E input \in Subjects :
          /\ subject' = input
          /\ matched' = RiftRegexMatchGraph(composition, input)
    /\ UNCHANGED <<composition, destroyed, ctxVars, snapVars, threadVars, routerVars, dfaVars, matchVars, bufferVars>>

\* rift_regex_destroy(regex), once per composition
Destroy ==
    /\ composition # NULL_REGEX
    /\ ~destroyed.called
    /\ \E stale \in {"kept", "reused"} :
          destroyed' = RiftRegexDestroy(composition, stale)
    /\ UNCHANGED <<composition, subject, matched, ctxVars, snapVars, threadVars,
                   routerVars, dfaVars, matchVars, bufferVars>>

NextCompile == Compile \/ Match \/ Destroy

SpecCompile == InitCompile /\ [][NextCompile]_vars

-----------------------------------------------------------------------------
(* DFA states built by a caller of rift_dfa_create_state and                *)
(* rift_dfa_add_transition                                                  *)

InitDfa == InitCompile

TransitionChars == {Ord("a"), Ord("b")}

\* the DFAState pointers a caller holds, and NULL
StatePointers == {s - 1 : s \in 1..Len(states.trans)} \cup {NULL_STATE}

CreateState ==
    /\ Len(states.trans) < MaxDfaStates
    /\ states' = RiftDfaCreateState(states)
    /\ UNCHANGED <<last_add, ctxVars, snapVars, threadVars, routerVars, compileVars, matchVars, bufferVars>>

\* the slot the call is about, as it was before the call
SlotBefore(from, transition_char) ==
    IF from = NULL_STATE THEN NULL_STATE
    ELSE states.trans[from + 1][transition_char]

Added(from, to, transition_char, r) ==
    /\ states' = r.states
    /\ last_add' = [called |-> TRUE, from |-> from, to |-> to,
                    transition_char |-> transition_char,
                    before |-> SlotBefore(from, transition_char),
                    ret |-> r.ret]

AddTransition ==
    /\ \E from \in StatePointers, to \in StatePointers,
          transition_char \in TransitionChars :
          /\ from # NULL_STATE => states.count[from + 1] < MaxTransitionCount
          /\ Added(from, to, transition_char,
                   RiftDfaAddTransition(states, from, to, transition_char))
    /\ UNCHANGED <<ctxVars, snapVars, threadVars, routerVars, compileVars, matchVars, bufferVars>>

NextDfa == CreateState \/ AddTransition

SpecDfa == InitDfa /\ [][NextDfa]_vars

-----------------------------------------------------------------------------
(* The registry and the error state: one caller going through the public    *)
(* operations that can fail                                                 *)

InitRegistry ==
    /\ \E pattern_capacity \in 1..MaxPatternCapacity :
          ctx = RiftTokenizerCreateWithCapacity(MaxTokenCapacity, pattern_capacity)
    /\ lexemes = <<>>
    /\ result = 0
    /\ last_op = "create"
    /\ snap = NoSnap
    /\ phase = "none"
    /\ NoThreads
    /\ NoRouter
    /\ NoCompile
    /\ NoDfa
    /\ NoMatcher
    /\ NoBuffer

\* an operation that returns a bool and leaves the scan outcome alone
Returned(r, op) ==
    /\ ctx' = r.ctx
    /\ result' = (IF r.ret THEN 1 ELSE 0)
    /\ last_op' = op
    /\ UNCHANGED <<lexemes, snapVars, threadVars, routerVars, compileVars, dfaVars, matchVars, bufferVars>>

\* the patterns this caller registers and unregisters
RegistryPatterns == {p \in PatternCatalogue : p.token_type # TOKEN_WHITESPACE}

\* rift_rules_register_pattern, with every outcome of its allocations
RegistryRegister ==
    \E p \in RegistryPatterns, alloc \in {"ok", "state", "regex"} :
       Returned(RiftRulesRegisterPattern(ctx, p.pattern, p.token_type,
                                         p.flags, alloc), "register")

RegistryUnregister ==
    \E pattern \in {p.pattern : p \in RegistryPatterns} :
       Returned(RiftRulesUnregisterPattern(ctx, pattern), "unregister")

RegistryClearAll ==
    Returned([ctx |-> RiftRulesClearAll(ctx), ret |-> TRUE], "clear_all")

RegistryResizePatternBuffer ==
    \E new_capacity \in 0..MaxPatternCapacity, alloc_ok \in BOOLEAN :
       Returned(RiftTokenizerResizePatternBuffer(ctx, new_capacity, alloc_ok),
                "resize_pattern_buffer")

RegistryResizeTokenBuffer ==
    \E new_capacity \in 0..MaxTokenCapacity, alloc_ok \in BOOLEAN :
       Returned(RiftTokenizerResizeTokenBuffer(ctx, new_capacity, alloc_ok),
                "resize_token_buffer")

RegistryGetTokenAt ==
    \E index \in 0..MaxTokenCapacity :
       Returned(RiftTokenizerGetTokenAt(ctx, index), "get_token_at")

RegistryClearError ==
    Returned([ctx |-> RiftTokenizerClearError(ctx), ret |-> TRUE], "clear_error")

RegistryReset ==
    Returned([ctx |-> RiftTokenizerReset(ctx), ret |-> TRUE], "reset")

RegistryScan ==
    /\ \E input \in {CStr(<<"a">>), NULL_PTR} :
          /\ input # NULL_PTR => WithinBudget(input)
          /\ DoScan(input, 0)
    /\ UNCHANGED <<snapVars, threadVars, routerVars, compileVars, dfaVars, matchVars, bufferVars>>

NextRegistry ==
    \/ RegistryRegister \/ RegistryUnregister \/ RegistryClearAll
    \/ RegistryResizePatternBuffer \/ RegistryResizeTokenBuffer
    \/ RegistryGetTokenAt \/ RegistryClearError \/ RegistryReset
    \/ RegistryScan

SpecRegistry == InitRegistry /\ [][NextRegistry]_vars

-----------------------------------------------------------------------------
(* The caller reads the tokens of a scan back with rift_tokenizer_get_tokens *)

InitFetch == Init

\* a scan; what an earlier call fetched is dropped
FetchScan ==
    /\ \E input \in Inputs : WithinBudget(input) /\ DoScan(input, Len(input))
    /\ fetched' = [called |-> FALSE]
    /\ UNCHANGED <<loop, range, snapVars, threadVars, routerVars, compileVars, dfaVars,
                   matchVars>>

\* rift_tokenizer_get_tokens(ctx, tokens, max_tokens) with a buffer of
\* max_tokens entries followed by one entry that is not the callee's, or
\* with tokens NULL
FetchTokens ==
    /\ \E max_tokens \in 0..(MaxTokenCapacity + 1), given \in BOOLEAN :
          fetched' =
             [called |-> TRUE, max_tokens |-> max_tokens, given |-> given,
              got |-> RiftTokenizerGetTokens(
                          ctx,
                          IF given THEN [k \in 1..(max_tokens + 1) |-> Untouched]
                          ELSE NULL_TOKENS,
                          max_tokens)]
    /\ UNCHANGED <<loop, range, ctxVars, snapVars, threadVars, routerVars, compileVars,
                   dfaVars, matchVars>>

NextFetch == FetchScan \/ FetchTokens

SpecFetch == InitFetch /\ [][NextFetch]_vars

-----------------------------------------------------------------------------
(* The while loop of rift_rules_apply_all on a long input.  The input is    *)
(* kept as its runs of equal bytes, and the one registered pattern is the    *)
(* identifier class, so that what the pattern loop finds at a position is    *)
(* read off the run the position lies in.                                    *)

\* lengths of a run, on either side of 65536
RunLengths == {1, 65535, 65536}

\* the identifier pattern of the catalogue
LongPattern == CHOOSE p \in PatternCatalogue : p.token_type = TOKEN_IDENTIFIER

\* inputs of up to MaxRuns runs, the byte changing from one run to the next
RECURSIVE RunsFrom(_, _)
RunsFrom(byte, n) ==
    IF n = 0 THEN {<<>>}
    ELSE {<<>>} \cup
         {<<[byte |-> byte, count |-> k]>> \o rest :
             k \in RunLengths,
             rest \in RunsFrom(CHOOSE other \in InputAlphabet : other # byte, n - 1)}

LongInputs == UNION {RunsFrom(byte, MaxRuns) \ {<<>>} : byte \in InputAlphabet}

RECURSIVE RunsLen(_)
RunsLen(runs) ==
    IF runs = <<>> THEN 0 ELSE Head(runs).count + RunsLen(Tail(runs))

\* the byte at index pos, and the number of bytes from pos to the end of its
\* run
RECURSIVE RunAt(_, _)
RunAt(runs, pos) ==
    IF pos < Head(runs).count
    THEN [byte |-> Head(runs).byte, left |-> Head(runs).count - pos]
    ELSE RunAt(Tail(runs), pos - Head(runs).count)

\* the pattern loop at a position: every end inside the run is accepted when
\* the byte is in the class, no end is accepted otherwise, and no end past
\* the run is accepted since the next run starts with another byte
TryPatternsInRun(patterns, run) ==
    IF RiftRegexMatch(patterns[1], <<run.byte>>)
    THEN [found_match |-> TRUE, best_match_length |-> run.left, best_regex |-> 1]
    ELSE NoMatch

InitOffsets ==
    /\ \E tc \in 1..MaxTokenCapacity :
          ctx = RiftRulesRegisterPattern(
                    RiftTokenizerCreateWithCapacity(tc, MaxPatternCapacity),
                    LongPattern.pattern, LongPattern.token_type,
                    LongPattern.flags, "ok").ctx
    /\ lexemes = <<>>
    /\ result = 1
    /\ last_op = "register"
    /\ snap = NoSnap
    /\ phase = "none"
    /\ NoThreads
    /\ NoRouter
    /\ NoCompile
    /\ NoDfa
    /\ NoMatcher
    /\ fetched = [called |-> FALSE]
    /\ range = NoRange
    /\ \E input \in LongInputs :
          loop = [running |-> TRUE, done |-> FALSE, input |-> input,
                  length |-> RunsLen(input), iterations |-> 0, begins |-> <<>>,
                  st |-> [pos |-> 0, total_tokens |-> 0, tokens |-> ctx.tokens,
                          line_number |-> ctx.line_number,
                          column_number |-> ctx.column_number,
                          lexemes |-> <<>>]]

\* the locals after an iteration: st after the token was emitted and the
\* position tracked, and the position the iteration started at when it
\* emitted a token
Iterated(st) ==
    loop' = [loop EXCEPT
               !.st = UpdatePosition(
                          st, [k \in {st.pos} |-> RunAt(loop.input, st.pos - 1).byte],
                          st.pos),
               !.iterations = @ + 1,
               !.begins = IF st.total_tokens > loop.st.total_tokens
                          THEN Append(@, loop.st.pos) ELSE @]

\* one iteration of while (pos < length)
LoopIteration ==
    /\ loop.running /\ ~loop.done
    /\ loop.st.pos < loop.length
    /\ loop.iterations < MaxIterations
    /\ Iterated(EmitStep(ctx, loop.st, ctx.regex_patterns,
                         TryPatternsInRun(ctx.regex_patterns,
                                          RunAt(loop.input, loop.st.pos))))
    /\ UNCHANGED <<fetched, range, ctxVars, snapVars, threadVars, routerVars, compileVars,
                   dfaVars, matchVars>>

\* the loop ends: token_count is stored and total_tokens returned
LoopExit ==
    /\ loop.running /\ ~loop.done
    /\ ~(loop.st.pos < loop.length)
    /\ Scanned(ApplyAllResult(ctx, loop.st))
    /\ loop' = [loop EXCEPT !.done = TRUE]
    /\ UNCHANGED <<fetched, range, snapVars, threadVars, routerVars, compileVars,
                   dfaVars, matchVars>>

NextOffsets == LoopIteration \/ LoopExit

SpecOffsets == InitOffsets /\ [][NextOffsets]_vars

-----------------------------------------------------------------------------
(* A context whose settings, patterns and tokens vary, and its reset *)

InitSettings == Init

SettingsRegister ==
    /\ \E p \in RegistryPatterns :
          Registered(RiftRulesRegisterPattern(ctx, p.pattern, p.token_type,
                                              p.flags, "ok"))
    /\ UNCHANGED <<snapVars, threadVars, routerVars, compileVars, dfaVars,
                   matchVars, bufferVars>>

SettingsScan ==
    /\ \E input \in ThreadInputs : WithinBudget(input) /\ DoScan(input, Len(input))
    /\ UNCHANGED <<snapVars, threadVars, routerVars, compileVars, dfaVars,
                   matchVars, bufferVars>>

Configured(c, op) ==
    /\ ctx' = c
    /\ result' = 1
    /\ last_op' = op
    /\ UNCHANGED lexemes

SettingsStrictMode ==
    /\ \E strict \in BOOLEAN :
          Configured(RiftTokenizerSetStrictMode(ctx, strict), "set_strict_mode")
    /\ UNCHANGED <<snapVars, threadVars, routerVars, compileVars, dfaVars,
                   matchVars, bufferVars>>

SettingsThreadSafeMode ==
    /\ \E thread_safe \in BOOLEAN :
          Configured(RiftTokenizerSetThreadSafeMode(ctx, thread_safe),
                     "set_thread_safe_mode")
    /\ UNCHANGED <<snapVars, threadVars, routerVars, compileVars, dfaVars,
                   matchVars, bufferVars>>

SettingsGlobalFlags ==
    /\ \E flags \in {TOKEN_FLAG_NONE, TOKEN_FLAG_GLOBAL} :
          Configured(RiftTokenizerSetGlobalFlags(ctx, flags), "set_global_flags")
    /\ UNCHANGED <<snapVars, threadVars, routerVars, compileVars, dfaVars,
                   matchVars, bufferVars>>

SettingsReset ==
    /\ Configured(RiftTokenizerReset(ctx), "reset")
    /\ UNCHANGED <<snapVars, threadVars, routerVars, compileVars, dfaVars,
                   matchVars, bufferVars>>

NextSettings ==
    \/ SettingsRegister \/ SettingsScan \/ SettingsStrictMode
    \/ SettingsThreadSafeMode \/ SettingsGlobalFlags \/ SettingsReset

SpecSettings == InitSettings /\ [][NextSettings]_vars

-----------------------------------------------------------------------------
(* match_token_pattern and classify_null_nil_semantic applied to a C string *)

MatchAlphabet == {Ord("R"), Ord("\""), Ord("'"), Ord("a"), Ord("1")}

\* the spellings of NULL and of nil in either case, and two longer words
KeywordSources ==
    {<<c1, c2, c3, c4>> : c1 \in {Ord("N"), Ord("n")}, c2 \in {Ord("U"), Ord("u")},
                          c3 \in {Ord("L"), Ord("l")}, c4 \in {Ord("L"), Ord("l")}}
    \cup {<<c1, c2, c3>> : c1 \in {Ord("N"), Ord("n")}, c2 \in {Ord("I"), Ord("i")},
                           c3 \in {Ord("L"), Ord("l")}}
    \cup {CStr(<<"N", "U", "L", "L", "a">>), CStr(<<"n", "i", "l", "a">>)}

MatchSources ==
    SeqsUpTo(MatchAlphabet, MaxSrcLen) \cup KeywordSources
       \cup {CStr(<<"+">>), CStr(<<"(">>), CStr(<<"@">>), CStr(<<"_", "a">>), NULL_PTR}

InitMatch ==
    /\ ctx = RiftTokenizerCreateWithCapacity(MaxTokenCapacity, MaxPatternCapacity)
    /\ lexemes = <<>>
    /\ result = 0
    /\ last_op = "create"
    /\ snap = NoSnap
    /\ phase = "none"
    /\ NoThreads
    /\ NoRouter
    /\ NoCompile
    /\ NoDfa
    /\ src \in MatchSources
    /\ out_token = [called |-> FALSE]
    /\ machine = NULL_MACHINE
    /\ fed = <<>>
    /\ answer = [op |-> "none", ret |-> FALSE]
    /\ NoBuffer

\* match_token_pattern(src, &token)
MatchPattern ==
    /\ out_token' = [called |-> TRUE, op |-> "match_token_pattern", len |-> 0,
                     token |-> MatchTokenPattern(src).token,
                     ret |-> MatchTokenPattern(src).ret]
    /\ UNCHANGED <<src, machine, fed, answer, ctxVars, snapVars, threadVars,
                   routerVars, compileVars, dfaVars, bufferVars>>

\* classify_null_nil_semantic(src, len) on the first len bytes of src
Classify ==
    /\ \E len \in 0..(IF src = NULL_PTR THEN 0 ELSE Len(src)) :
          out_token' = [called |-> TRUE, op |-> "classify_null_nil_semantic",
                        len |-> len, token |-> ZeroToken,
                        ret |-> ClassifyNullNilSemantic(src, len)]
    /\ UNCHANGED <<src, machine, fed, answer, ctxVars, snapVars, threadVars,
                   routerVars, compileVars, dfaVars, bufferVars>>

NextMatch == MatchPattern \/ Classify

SpecMatch == InitMatch /\ [][NextMatch]_vars

-----------------------------------------------------------------------------
(* The R-pattern recogniser fed one character at a time *)

MachineAlphabet == {Ord("R"), Ord("\""), Ord("'"), Ord("a")}

InitMachine ==
    /\ ctx = RiftTokenizerCreateWithCapacity(MaxTokenCapacity, MaxPatternCapacity)
    /\ lexemes = <<>>
    /\ result = 0
    /\ last_op = "create"
    /\ snap = NoSnap
    /\ phase = "none"
    /\ NoThreads
    /\ NoRouter
    /\ NoCompile
    /\ NoDfa
    /\ src = NULL_PTR
    /\ out_token = [called |-> FALSE]
    /\ \E alloc_ok \in BOOLEAN : machine = DfaCreate(alloc_ok)
    /\ fed = <<>>
    /\ answer = [op |-> "dfa_create", ret |-> FALSE]
    /\ NoBuffer

Fed(r, c) ==
    /\ machine' = r.machine
    /\ fed' = Append(fed, c)
    /\ answer' = [op |-> "dfa_process_char", ret |-> r.ret]

\* dfa_process_char(dfa, c)
ProcessChar ==
    /\ Len(fed) < MaxFed
    /\ \E c \in MachineAlphabet : Fed(DfaProcessChar(machine, c), c)
    /\ UNCHANGED <<src, out_token, ctxVars, snapVars, threadVars, routerVars,
                   compileVars, dfaVars, bufferVars>>

\* dfa_is_accepting(dfa)
IsAccepting ==
    /\ answer' = [op |-> "dfa_is_accepting", ret |-> DfaIsAccepting(machine)]
    /\ UNCHANGED <<machine, fed, src, out_token, ctxVars, snapVars, threadVars,
                   routerVars, compileVars, dfaVars, bufferVars>>

\* dfa_reset(dfa)
ResetMachine ==
    /\ machine' = DfaReset(machine)
    /\ fed' = <<>>
    /\ answer' = [op |-> "dfa_reset", ret |-> FALSE]
    /\ UNCHANGED <<src, out_token, ctxVars, snapVars, threadVars, routerVars,
                   compileVars, dfaVars, bufferVars>>

NextMachine == ProcessChar \/ IsAccepting \/ ResetMachine

SpecMachine == InitMachine /\ [][NextMachine]_vars

-----
(* Properties of a scan *)

RECURSIVE SumSeq(_)
SumSeq(s) == IF s = <<>> THEN 0 ELSE Head(s) + SumSeq(Tail(s))

\* the state right after a scan that reported success
ScanDone == last_op = "scan" /\ result >= 0

\* the registry as the scan reads it
Registry == SubSeq(ctx.regex_patterns, 1, ctx.pattern_count)

\* pattern i accepts the n bytes of the scanned input that start at offset p
Accepts(i, p, n) ==
    /\ n >= 1
    /\ p + n <= ctx.input_length
    /\ RiftRegexMatch(Registry[i], SubSeq(ctx.input_buffer, p + 1, p + n))

\* the lengths some registered pattern accepts at offset p
AcceptedLengths(p) ==
    {n \in 1..(ctx.input_length - p) : \E i \in 1..Len(Registry) : Accepts(i, p, n)}

\* C1: after a successful scan the emitted tokens cover the input exactly:
\* the bytes they stand for sum to the input length, their offsets strictly
\* increase, and each token begins where the previous one ends.
C1_Coverage ==
    ScanDone =>
       LET toks == EmittedTokens(ctx)
       IN  /\ Len(lexemes) = Len(toks)
           /\ SumSeq(lexemes) = ctx.input_length
           /\ \A k \in 1..(Len(toks) - 1) :
                 /\ toks[k].mem_ptr < toks[k + 1].mem_ptr
                 /\ toks[k + 1].mem_ptr = toks[k].mem_ptr + lexemes[k]

\* C2: for every token emitted at an offset p, no registered pattern accepts
\* a prefix of input[p..] longer than the token, and when some pattern
\* accepts at p the token's length is the greatest accepted length.
C2_LongestMatch ==
    ScanDone =>
       \A k \in 1..ctx.token_count :
          LET p == ctx.tokens[k].mem_ptr
          IN  /\ \A n \in AcceptedLengths(p) : n <= lexemes[k]
              /\ AcceptedLengths(p) # {} => lexemes[k] \in AcceptedLengths(p)

\* a token of two bytes was emitted where a pattern also accepts one byte
C2_Witness ==
    /\ ScanDone
    /\ \E k \in 1..ctx.token_count :
          /\ lexemes[k] = 2
          /\ 1 \in AcceptedLengths(ctx.tokens[k].mem_ptr)

\* the priority the caller means each pattern to have (the scenarios of the
\* specification: identifier 50, keyword 200, whitespace 60); the registry
\* of the code records none
Priority(regex) ==
    CASE regex.token_type = TOKEN_KEYWORD -> 200
      [] regex.token_type = TOKEN_WHITESPACE -> 60
      [] OTHER -> 50

\* among the patterns accepting n bytes at p: highest priority, then earliest
Winner(p, n) ==
    CHOOSE i \in 1..Len(Registry) :
       /\ Accepts(i, p, n)
       /\ \A j \in 1..Len(Registry) :
             Accepts(j, p, n) =>
                \/ Priority(Registry[j]) < Priority(Registry[i])
                \/ Priority(Registry[j]) = Priority(Registry[i]) /\ i <= j

\* C3: when several patterns accept the greatest length at an offset, the
\* emitted token has the kind of the pattern of highest priority, and of the
\* earliest registered among those of equal priority.
C3_PriorityTieBreak ==
    ScanDone =>
       \A k \in 1..ctx.token_count :
          LET p == ctx.tokens[k].mem_ptr
          IN  lexemes[k] \in AcceptedLengths(p) =>
                 ctx.tokens[k].type = Registry[Winner(p, lexemes[k])].token_type

\* C4: a scan that reaches the end of its input ends with exactly one eof
\* token, of length 0, at the offset of the input length.
C4_EofTerminated ==
    ScanDone =>
       /\ ctx.token_count >= 1
       /\ ctx.tokens[ctx.token_count].type = TOKEN_EOF
       /\ ctx.tokens[ctx.token_count].mem_ptr = ctx.input_length
       /\ lexemes[ctx.token_count] = 0
       /\ \A k \in 1..(ctx.token_count - 1) : ctx.tokens[k].type # TOKEN_EOF

\* C5: in strict mode a scan that meets an offset where no pattern accepts
\* emits an error token there, emits nothing after it, and reports failure.
C5_StrictStops ==
    (last_op = "scan" /\ ctx.strict_mode /\ ctx.input_buffer # NULL_PTR) =>
       \A k \in 1..ctx.token_count :
          AcceptedLengths(ctx.tokens[k].mem_ptr) = {} =>
             /\ ctx.tokens[k].type = TOKEN_ERROR
             /\ k = ctx.token_count
             /\ result < 0

\* the number of line-feed bytes of s
RECURSIVE CountLF(_)
CountLF(s) ==
    IF s = <<>> THEN 0
    ELSE (IF Head(s) = Ord("\n") THEN 1 ELSE 0) + CountLF(Tail(s))

\* the number of bytes of s after its last line-feed (all of s without one)
RECURSIVE BytesAfterLastLF(_)
BytesAfterLastLF(s) ==
    IF s = <<>> \/ s[Len(s)] = Ord("\n") THEN 0
    ELSE 1 + BytesAfterLastLF(SubSeq(s, 1, Len(s) - 1))

\* C6: after a scan of I, line = 1 + the line-feeds of I and column = 1 + the
\* bytes after the last line-feed of I.
C6_PositionTracking ==
    ScanDone =>
       /\ ctx.line_number = 1 + CountLF(ctx.input_buffer)
       /\ ctx.column_number = 1 + BytesAfterLastLF(ctx.input_buffer)


\* the second scan of the sequence has just been made
SecondScanDone == phase \in {"second", "rescan"} /\ result >= 0

\* C7: two scans of the same input with the same registered patterns emit
\* the same tokens: same kinds, offsets and flags, standing for the same
\* numbers of bytes.
C7_Deterministic ==
    (SecondScanDone /\ Registry = snap.patterns /\ ctx.input_buffer = snap.input) =>
       /\ EmittedTokens(ctx) = snap.tokens
       /\ lexemes = snap.lexemes

\* C8: a scan of I, a reset, and a second scan of I give the same tokens and
\* the same final line and column as the first scan.
C8_ResetIdempotent ==
    (phase = "rescan" /\ result >= 0) =>
       /\ EmittedTokens(ctx) = snap.tokens
       /\ lexemes = snap.lexemes
       /\ ctx.line_number = snap.line_number
       /\ ctx.column_number = snap.column_number

-----------------------------------------------------------------------------
(* Properties of concurrent calls *)

\* thread t is between the first and the last access of its call to the
\* context
Accessing(t) == pc[t] \in {"apply", "get_copy"}

\* C9: while thread-safe mode is enabled, a thread that is between the first
\* and the last access of its call to the context holds the context mutex.
C9_MutexHeld ==
    ctx.thread_safe_mode => \A t \in Threads : Accessing(t) => mutex = t

-----------------------------------------------------------------------------
(* Properties of the router *)

QuantumKinds == {R_QUANTUM_TOKEN, R_COLLAPSE_MARKER, R_ENTANGLE_MARKER}

\* the lines of a channel as a set
Lines(channel) == {channel[k] : k \in 1..Len(channel)}

\* C10: a token is in the quantum channel if and only if its kind is
\* quantum-marker, collapse-marker or entangle-marker or the context is in
\* quantum mode; every other token is in the classical channel.
C10_RouterRule ==
    output.allocated =>
       /\ \A l \in Lines(output.quantum_channel) :
             l.type \in QuantumKinds \/ stage0.quantum_mode_active
       /\ \A l \in Lines(output.classic_channel) :
             ~(l.type \in QuantumKinds \/ stage0.quantum_mode_active)

\* an input was routed that has a collapse marker and a token of another
\* kind before the EOF token
C10_Witness ==
    /\ output.allocated
    /\ \E l \in Lines(output.quantum_channel) : l.type = R_COLLAPSE_MARKER
    /\ \E l \in Lines(output.classic_channel) : l.type = R_NUMBER

\* the positions, in the scan, of the lines of a channel
Indices(channel) == [k \in 1..Len(channel) |-> channel[k].index]

StrictlyIncreasing(s) == \A k \in 1..(Len(s) - 1) : s[k] < s[k + 1]

\* C11: routing partitions the scanned tokens: every scanned token is in
\* exactly one channel, each channel keeps the order of the scan, and the
\* two channels merged by position give back the scanned sequence, nothing
\* lost, duplicated or reordered.
C11_Partition ==
    (output.allocated /\ output.error_level = 0) =>
       /\ Len(output.classic_channel) + Len(output.quantum_channel) = Len(scanned)
       /\ StrictlyIncreasing(Indices(output.classic_channel))
       /\ StrictlyIncreasing(Indices(output.quantum_channel))
       /\ \A i \in 0..(Len(scanned) - 1) :
             (TokenLine(scanned, i) \in Lines(output.classic_channel))
                 # (TokenLine(scanned, i) \in Lines(output.quantum_channel))

\* three tokens were routed, the middle one to the quantum channel and its
\* neighbours to the classical channel
C11_Witness ==
    /\ output.allocated
    /\ Len(scanned) = 3
    /\ Indices(output.quantum_channel) = <<1>>
    /\ Indices(output.classic_channel) = <<0, 2>>

-----------------------------------------------------------------------------
(* Properties of the pattern compiler *)

\* an atom of a pattern with its quantifier: "1" for none
Atom(set, quant) == [set |-> set, quant |-> quant]

\* the wildcard without the multiline flag: any byte but line-feed
AnyByte == Byte \ {Ord("\n")}

\* the texts of CompileTexts that use an unsupported construct or leave a
\* character class open
UnsupportedTexts ==
    { CStr(<<"a", "|", "b">>), CStr(<<"(", "a", ")">>), CStr(<<"[", "a">>) }

\* what each supported text denotes in the dialect: its atoms in order
Meaning(p) ==
    CASE p = CStr(<<"a", "b">>) -> <<Atom({97}, "1"), Atom({98}, "1")>>
      [] p = CStr(<<"a", "*", "b">>) -> <<Atom({97}, "*"), Atom({98}, "1")>>
      [] p = CStr(<<"a", "*", "a">>) -> <<Atom({97}, "*"), Atom({97}, "1")>>
      [] p = CStr(<<"a", "?", "a">>) -> <<Atom({97}, "?"), Atom({97}, "1")>>
      [] p = CStr(<<"a", "+", "b">>) -> <<Atom({97}, "+"), Atom({98}, "1")>>
      [] p = CStr(<<"[", "a", "b", "]", "+">>) -> <<Atom({97, 98}, "+")>>
      [] p = CStr(<<"[", "^", "a", "]">>) -> <<Atom(Byte \ {97}, "1")>>
      [] p = CStr(<<".">>) -> <<Atom(AnyByte, "1")>>
      [] p = CStr(<<"\\", "a", "b">>) -> <<Atom({97}, "1"), Atom({98}, "1")>>
      [] p = CStr(<<"^", "a", "b", "$">>) -> <<Atom({97}, "1"), Atom({98}, "1")>>

\* the bytes of s from index j on are in the language of the atoms from k on
RECURSIVE InLanguage(_, _, _, _)
InLanguage(atoms, k, s, j) ==
    IF k > Len(atoms) THEN j > Len(s)
    ELSE CASE atoms[k].quant = "1" ->
                 /\ j <= Len(s)
                 /\ s[j] \in atoms[k].set
                 /\ InLanguage(atoms, k + 1, s, j + 1)
           [] atoms[k].quant = "?" ->
                 \/ InLanguage(atoms, k + 1, s, j)
                 \/ /\ j <= Len(s)
                    /\ s[j] \in atoms[k].set
                    /\ InLanguage(atoms, k + 1, s, j + 1)
           [] atoms[k].quant = "*" ->
                 \/ InLanguage(atoms, k + 1, s, j)
                 \/ /\ j <= Len(s)
                    /\ s[j] \in atoms[k].set
                    /\ InLanguage(atoms, k, s, j + 1)
           [] atoms[k].quant = "+" ->
                 /\ j <= Len(s)
                 /\ s[j] \in atoms[k].set
                 /\ InLanguage([atoms EXCEPT ![k].quant = "*"], k, s, j + 1)

\* rift_regex_match was called on a composition that compiled
MatchDone == composition.is_compiled /\ subject # NULL_PTR

\* C12: for a pattern of the supported dialect, the compiled graph accepts
\* a byte string if and only if the string is in the language of the
\* pattern, also when a quantified atom is followed by an atom that shares
\* a byte with it.
C12_GraphMatchesLanguage ==
    (MatchDone /\ composition.pattern \notin UnsupportedTexts) =>
       (matched <=> InLanguage(Meaning(composition.pattern), 1, subject, 1))

\* C15: a text with an unsupported construct or an unterminated character
\* class does not compile: the compiler fails and leaves no graph.
C15_UnsupportedRejected ==
    (composition # NULL_REGEX /\ composition.pattern \in UnsupportedTexts) =>
       (~composition.is_compiled /\ composition.graph = StartGraph)

-----------------------------------------------------------------------------
(* Properties of the DFA states *)

\* the occupied transition slots of the state created s-th
OccupiedSlots(s) == {b \in Byte : states.trans[s + 1][b] # NULL_STATE}

\* C20: a transition added where the from-state already has one on that
\* byte is rejected and the existing transition is kept, and the transition
\* count of every state equals its number of occupied slots.
C20_DeterministicAdd ==
    /\ (last_add.called /\ last_add.before # NULL_STATE) =>
          /\ ~last_add.ret
          /\ states.trans[last_add.from + 1][last_add.transition_char]
                = last_add.before
    /\ \A s \in 0..(Len(states.trans) - 1) :
          states.count[s + 1] = Cardinality(OccupiedSlots(s))

-----------------------------------------------------------------------------
(* Properties of the registry and of the error state *)

\* the step is a register call made on a full registry
RegisterOnFull ==
    last_op' = "register" /\ ctx.pattern_count >= ctx.pattern_capacity

RegistryUnchanged ==
    /\ ctx'.regex_patterns = ctx.regex_patterns
    /\ ctx'.pattern_count = ctx.pattern_count

C14_CompileBeforeInsert ==
    \A k \in 1..ctx.pattern_count : ctx.regex_patterns[k].is_compiled

\* C16: the registry never holds two entries under the same name (the
\* pattern text, the key unregister looks an entry up by).
C16_NoDuplicateName ==
    \A j, k \in 1..ctx.pattern_count :
       ctx.regex_patterns[j].pattern = ctx.regex_patterns[k].pattern => j = k

\* the last operation reported failure
Failed ==
    \/ /\ last_op \in {"register", "unregister", "resize_pattern_buffer",
                       "resize_token_buffer", "get_token_at"}
       /\ result = 0
    \/ last_op = "scan" /\ result < 0

\* C17: an operation that reports failure sets the error state and leaves
\* the registry and the token buffer as they were before the call.
C17_FailureIsNoOp ==
    [][Failed' =>
          /\ ctx'.has_error
          /\ ctx'.error_code # RIFT_TOKENIZER_SUCCESS
          /\ RegistryUnchanged
          /\ ctx'.tokens = ctx.tokens
          /\ ctx'.token_count = ctx.token_count]_vars

\* C18: once set, the error state stays set through every operation other
\* than clear_error.
C18_ErrorSticky ==
    [][(ctx.has_error /\ last_op' # "clear_error") => ctx'.has_error]_vars

-----------------------------------------------------------------------------
(* Properties of the token buffer during a scan *)

\* the context of the last scan with a token buffer that has room for a
\* token at every byte of the input
WithRoom(c) ==
    [c EXCEPT !.token_capacity = c.input_length + 1,
              !.tokens = [k \in 1..(c.input_length + 1) |-> ZeroToken]]

\* the number of tokens the last scan emits when it is never short of room
TokensWithRoom ==
    RiftRulesApplyAll(WithRoom(ctx), ctx.input_buffer, ctx.input_length).ret

\* C19: a scan that finds the token buffer full below the ceiling grows it
\* and goes on emitting: it returns as many tokens as it does when the
\* buffer has room from the start, and the buffer holds them all.
C19_NoTokenDropped ==
    (ScanDone /\ ctx.token_capacity < RIFT_TOKENIZER_MAX_TOKENS) =>
       /\ result = TokensWithRoom
       /\ ctx.token_count = TokensWithRoom
       /\ ctx.token_capacity >= TokensWithRoom

-----------------------------------------------------------------------------
(* Properties of the destruction of a graph *)

\* the states reachable from those of seen over the transition tables
RECURSIVE Reach(_, _)
Reach(trans, seen) ==
    IF ({trans[s + 1][b] : s \in seen, b \in Byte} \ {NULL_STATE}) \subseteq seen
    THEN seen
    ELSE Reach(trans, seen \cup ({trans[s + 1][b] : s \in seen, b \in Byte}
                                   \ {NULL_STATE}))

TimesReleased(s) ==
    Cardinality({k \in 1..Len(destroyed.released) : destroyed.released[k] = s})

\* C21: destroying a graph releases every state reachable from the start
\* state exactly once and reads no state after it was released, for every
\* graph the pattern compiler produces.
C21_DestroyOnce ==
    destroyed.called =>
       /\ \A s \in Reach(composition.graph.trans, {0}) : TimesReleased(s) = 1
       /\ destroyed.stale_reads = 0

\* flags & flag, for a flag of one bit
HasFlag(flags, flag) == (flags \div flag) % 2 = 1

\* C25: the wildcard matches every byte except line-feed when the
\* multiline flag is not set, and line-feed as well when it is set.
C25_WildcardLineFeed ==
    (MatchDone /\ composition.pattern = CStr(<<".">>) /\ Len(subject) = 1)
    => (matched <=> (\/ subject[1] # Ord("\n")
                     \/ HasFlag(composition.flags, TOKEN_FLAG_MULTILINE)))

-----------------------------------------------------------------------------
(* Properties of tokenizer_match.c *)

\* src begins with R, a quote, content and the same quote again
RPatternSource(p) ==
    /\ p # NULL_PTR
    /\ Len(p) >= 3
    /\ p[1] = Ord("R")
    /\ p[2] \in Quotes
    /\ \E n \in 3..Len(p) : p[n] = p[2]

\* C26: match_token_pattern on an input that begins with R, a quote, content
\* and a closing quote gives a token of kind TOKEN_R_PATTERN and a positive
\* return value.
C26_RPatternMatched ==
    (/\ out_token.called
     /\ out_token.op = "match_token_pattern"
     /\ RPatternSource(src))
    => /\ out_token.token.type = TOKEN_R_PATTERN
       /\ out_token.ret > 0

\* the lexeme classify_null_nil_semantic was given: the first len bytes
Lexeme == IF src = NULL_PTR THEN <<>> ELSE SubSeq(src, 1, out_token.len)

\* C27: a lexeme is classified TOKEN_NULL_KEYWORD only when it is exactly
\* NULL and TOKEN_NIL_KEYWORD only when it is exactly nil, in that case of
\* the letters; the two kinds differ.
C27_CaseSensitive ==
    (out_token.called /\ out_token.op = "classify_null_nil_semantic")
    => /\ (out_token.ret = TOKEN_NULL_KEYWORD)
             <=> (Lexeme = CStr(<<"N", "U", "L", "L">>))
       /\ (out_token.ret = TOKEN_NIL_KEYWORD)
             <=> (Lexeme = CStr(<<"n", "i", "l">>))
       /\ TOKEN_NULL_KEYWORD # TOKEN_NIL_KEYWORD

\* R, a quote, zero or more characters that are not quotes, a quote
InRLanguage(f) ==
    /\ Len(f) >= 3
    /\ f[1] = Ord("R")
    /\ f[2] \in Quotes
    /\ f[Len(f)] \in Quotes
    /\ \A k \in 3..(Len(f) - 1) : f[k] \notin Quotes

\* C28: the recogniser is accepting exactly after R, a quote, characters
\* that are not quotes and a quote; dfa_process_char returns false exactly
\* when the machine is in the error state after the call; only dfa_reset
\* leaves the error state; after dfa_reset the machine is not accepting.
C28_Recogniser ==
    /\ [](machine.allocated => (DfaIsAccepting(machine) <=> InRLanguage(fed)))
    /\ [][/\ (machine.allocated /\ answer'.op = "dfa_process_char")
                => (~answer'.ret <=> machine'.state = DFA_STATE_ERROR)
          /\ (machine.state = DFA_STATE_ERROR /\ machine'.state # DFA_STATE_ERROR)
                => answer'.op = "dfa_reset"
          /\ (answer'.op = "dfa_reset") => ~DfaIsAccepting(machine')]_vars

\* the recogniser went through R, a quote and two characters and a call of
\* dfa_process_char left it accepting
C28_Witness ==
    /\ machine.allocated
    /\ answer.op = "dfa_process_char"
    /\ answer.ret
    /\ DfaIsAccepting(machine)
    /\ Len(fed) = 4


-----------------------------------------------------------------------------
(* Properties of the loop on a long input, of get_tokens and of reset *)

\* C23: at every point of the scan, each emitted token's start offset is the
\* byte index at which its lexeme begins, the offsets do not decrease along
\* the emitted sequence, and offset + length does not exceed the input
\* length, also for inputs longer than 65535 bytes
C23_OffsetIsByteIndex ==
    loop.running =>
       \A k \in 1..loop.st.total_tokens :
          /\ loop.st.tokens[k].mem_ptr = loop.begins[k]
          /\ loop.st.tokens[k].mem_ptr + loop.st.lexemes[k] <= loop.length
          /\ k > 1 => loop.st.tokens[k - 1].mem_ptr <= loop.st.tokens[k].mem_ptr

\* C24: get_tokens with a buffer copies the first min(token_count, max)
\* tokens in order, leaves the entries after them as they were, and returns
\* the number of tokens it copied
CopiedCount == IF ctx.token_count < fetched.max_tokens THEN ctx.token_count
               ELSE fetched.max_tokens

C24_GetTokensCopiedCount ==
    (fetched.called /\ fetched.given) =>
       /\ \A k \in 1..CopiedCount : fetched.got.tokens[k] = ctx.tokens[k]
       /\ \A k \in (CopiedCount + 1)..(fetched.max_tokens + 1) :
             fetched.got.tokens[k] = Untouched
       /\ fetched.got.ret = CopiedCount
       /\ fetched.got.ret <= fetched.max_tokens

\* C30: a reset leaves no emitted token and the position at offset 0, line
\* 1, column 1, and keeps the registered patterns, their count, both
\* capacities and the strict, thread-safe and global-flag settings
C30_ResetFrame ==
    [][last_op' = "reset" =>
          /\ ctx'.token_count = 0
          /\ ctx'.current_position = 0
          /\ ctx'.line_number = 1
          /\ ctx'.column_number = 1
          /\ ctx'.regex_patterns = ctx.regex_patterns
          /\ ctx'.pattern_count = ctx.pattern_count
          /\ ctx'.token_capacity = ctx.token_capacity
          /\ ctx'.pattern_capacity = ctx.pattern_capacity
          /\ ctx'.strict_mode = ctx.strict_mode
          /\ ctx'.thread_safe_mode = ctx.thread_safe_mode
          /\ ctx'.global_flags = ctx.global_flags]_vars

\* a reset of a context that holds a pattern, scanned bytes into tokens and
\* has all three settings changed from their defaults
C30_Witness ==
    /\ last_op = "reset"
    /\ ctx.pattern_count > 0
    /\ ctx.stats.tokens_generated > 0
    /\ ctx.stats.tokens_processed > 0
    /\ ctx.strict_mode /\ ctx.thread_safe_mode
    /\ ctx.global_flags = TOKEN_FLAG_GLOBAL


-----------------------------------------------------------------------------
(* Properties of the positions no pattern accepts at *)

\* the positions the loop of rift_rules_apply_all is at, from the locals st
\* on
RECURSIVE PositionsFrom(_, _, _, _)
PositionsFrom(c, input, length, st) ==
    IF ~(st.pos < length) THEN {}
    ELSE {st.pos} \cup PositionsFrom(c, input, length, ApplyAllStep(c, input, st))

\* the positions of the scan that left the context c
ScanPositions(c) ==
    PositionsFrom(c, c.input_buffer, c.input_length,
                  [pos |-> 0, total_tokens |-> 0, tokens |-> c.tokens,
                   line_number |-> 1, column_number |-> 1, lexemes |-> <<>>])

\* no registered pattern accepts at position p of the input of c
NoneAccepts(c, p) ==
    ~TryPatterns(SubSeq(c.regex_patterns, 1, c.pattern_count), 1,
                 SubSeq(c.input_buffer, 1, c.input_length), p, NoMatch).found_match

\* C29: after a scan in lenient mode, every position of the scan at which no
\* registered pattern accepts has an unknown token of length 1 at that
\* offset among the emitted tokens, and the scan went on one byte further
C29_UnknownAtEveryPosition ==
    (last_op = "scan" /\ result >= 0 /\ ~ctx.strict_mode) =>
       \A p \in ScanPositions(ctx) :
          NoneAccepts(ctx, p) =>
             /\ \E k \in 1..ctx.token_count :
                   /\ ctx.tokens[k].type = TOKEN_UNKNOWN
                   /\ ctx.tokens[k].mem_ptr = p
                   /\ lexemes[k] = 1
             /\ (p + 1 \in ScanPositions(ctx) \/ p + 1 = ctx.input_length)


-----------------------------------------------------------------------------
(* Properties of the router across calls *)

\* governed_malloc for every token of the sequence
RECURSIVE AllocateTokens(_, _, _)
AllocateTokens(c, tokens, i) ==
    IF i > Len(tokens) THEN c
    ELSE AllocateTokens(GovernedMalloc(c, TokenSize(tokens[i].value)), tokens, i + 1)

\* what process_stage0 yields for the scanned sequence in a context that
\* processed nothing before
RoutedAlone(tokens) ==
    Stage0Output([failed |-> FALSE, tokens |-> tokens,
                  ctx |-> AllocateTokens(RiftStage0Create(TRUE), tokens, 1)]).output

\* C22: the channels of a call that scanned its whole input, the metadata
\* appended to the classical channel included, are those the same scanned
\* sequence yields in a context that processed nothing earlier
C22_RoutingFromScannedAlone ==
    (/\ output.allocated /\ output.error_level = 0
     /\ Len(scanned) > 0 /\ scanned[Len(scanned)].type = R_EOF)
       => output = RoutedAlone(scanned)


-----------------------------------------------------------------------------
(* Properties of the quantum mode *)

\* the lexemes of an input: its maximal runs of characters other than
\* space, tab and line-feed, from index i on, w being the run so far
RECURSIVE LexemesOf(_, _, _)
LexemesOf(input, i, w) ==
    IF i > Len(input) THEN (IF w = <<>> THEN <<>> ELSE <<w>>)
    ELSE IF input[i] \in {" ", "\n", "\t"}
    THEN (IF w = <<>> THEN <<>> ELSE <<w>>) \o LexemesOf(input, i + 1, <<>>)
    ELSE LexemesOf(input, i + 1, Append(w, input[i]))

\* the mode after the lexemes from index k on, when it is sticky
RECURSIVE StickyMode(_, _, _)
StickyMode(mode, words, k) ==
    IF k > Len(words) THEN mode
    ELSE StickyMode(IF words[k] = <<"!", "q", "u", "a", "n", "t", "u", "m">> THEN TRUE
                    ELSE IF words[k] = <<"!", "c", "l", "a", "s", "s", "i", "c">>
                    THEN FALSE
                    ELSE mode,
                    words, k + 1)

\* C31: a process_stage0 call leaves the context in quantum mode when the
\* last mode lexeme of its input is !quantum, out of it when that lexeme is
\* !classic, and in the mode it had when the input holds neither
C31_StickyMode ==
    [][(calls' = calls + 1 /\ stage0.initialized /\ ~handed'.long) =>
          stage0'.quantum_mode_active =
             StickyMode(stage0.quantum_mode_active, LexemesOf(handed'.text, 1, <<>>), 1)]_vars

-----------------------------------------------------------------------------
(* The while loop of rift_rules_apply_all, one iteration at a time, on a    *)
(* context whose patterns include one that accepts the empty string          *)

ScanPatterns == PatternCatalogue \cup {StarPattern}

ScanInputs == SeqsUpTo(InputAlphabet, MaxScanLen)

\* the context after the patterns of ps were registered in order
RECURSIVE RegisterInOrder(_, _)
RegisterInOrder(c, ps) ==
    IF ps = <<>> THEN c
    ELSE RegisterInOrder(
             RiftRulesRegisterPattern(c, Head(ps).pattern, Head(ps).token_type,
                                      Head(ps).flags, "ok").ctx,
             Tail(ps))

InitScanLoop ==
    /\ \E tc \in 1..MaxTokenCapacity, ps \in SeqsUpTo(ScanPatterns, MaxPatternCapacity) :
          ctx = RegisterInOrder(
                    RiftTokenizerCreateWithCapacity(tc, MaxPatternCapacity), ps)
    /\ lexemes = <<>>
    /\ result = 1
    /\ last_op = "register"
    /\ snap = NoSnap
    /\ phase = "none"
    /\ NoThreads
    /\ NoRouter
    /\ NoCompile
    /\ NoDfa
    /\ NoMatcher
    /\ fetched = [called |-> FALSE]
    /\ range = NoRange
    /\ \E input \in ScanInputs :
          loop = [running |-> TRUE, done |-> FALSE, input |-> input,
                  length |-> Len(input), iterations |-> 0, begins |-> <<>>,
                  st |-> [pos |-> 0, total_tokens |-> 0, tokens |-> ctx.tokens,
                          line_number |-> ctx.line_number,
                          column_number |-> ctx.column_number,
                          lexemes |-> <<>>]]

\* the locals after an iteration
ScanIterated(st) ==
    loop' = [loop EXCEPT
               !.st = st,
               !.iterations = @ + 1,
               !.begins = IF st.total_tokens > loop.st.total_tokens
                          THEN Append(@, loop.st.pos) ELSE @]

\* one iteration of while (pos < length)
ScanIteration ==
    /\ loop.running /\ ~loop.done
    /\ loop.st.pos < loop.length
    /\ ScanIterated(ApplyAllStep(ctx, loop.input, loop.st))
    /\ UNCHANGED <<fetched, range, ctxVars, snapVars, threadVars, routerVars, compileVars,
                   dfaVars, matchVars>>

\* the loop ends: token_count is stored and total_tokens returned
ScanExit ==
    /\ loop.running /\ ~loop.done
    /\ ~(loop.st.pos < loop.length)
    /\ Scanned(ApplyAllResult(ctx, loop.st))
    /\ loop' = [loop EXCEPT !.done = TRUE]
    /\ UNCHANGED <<fetched, range, snapVars, threadVars, routerVars, compileVars,
                   dfaVars, matchVars>>

NextScanLoop == ScanIteration \/ ScanExit

SpecScanLoop == InitScanLoop /\ [][NextScanLoop]_vars

\* the thread inside rift_rules_apply_all keeps running
SpecScanLoopFair == SpecScanLoop /\ WF_vars(NextScanLoop)

\* C32: every scan terminates: each iteration of the loop moves the position
\* forward by at least one byte, every emitted token stands for at least one
\* byte even when a registered pattern accepts the empty string, the position
\* never passes the input length, the loop runs at most |I| times, and the
\* loop is left in the end.
C32_ScanTerminates ==
    /\ [](/\ loop.st.pos <= loop.length
          /\ loop.iterations <= loop.length
          /\ \A k \in 1..Len(loop.st.lexemes) : loop.st.lexemes[k] >= 1)
    /\ [][loop'.iterations = loop.iterations + 1 =>
             loop'.st.pos >= loop.st.pos + 1]_vars
    /\ <>loop.done

\* a scan of two bytes or more that ended, with the empty-string pattern
\* registered and a token of its type emitted
C32_Witness ==
    /\ loop.done
    /\ loop.length >= 2
    /\ loop.iterations >= 1
    /\ \E i \in 1..ctx.pattern_count : ctx.regex_patterns[i].pattern = StarPattern.pattern
    /\ \E k \in 1..ctx.token_count : ctx.tokens[k].type = StarPattern.token_type

\* C35: lock and unlock stay paired while other threads call
\* rift_tokenizer_set_thread_safe_mode: a thread that is in no operation does
\* not hold the context mutex, and a thread about to call
\* pthread_mutex_unlock holds it.
C35_LockUnlockPaired ==
    \A t \in Threads :
       /\ pc[t] = "idle" => mutex # t
       /\ pc[t] = "release" => mutex = t

-----------------------------------------------------------------------------
(* One caller going through the operations that size the buffers: create,   *)
(* register, unregister, scan, reset, both resizes, compact and             *)
(* set_thread_safe_mode.  The caller is thread 1; an operation that takes   *)
(* the context mutex releases it before it returns, so the mutex is free    *)
(* between two operations.                                                  *)

\* rift_tokenizer_create_with_capacity returns a context for these sizes
\* and NULL for the others
CreateAccepts(token_capacity, pattern_capacity) ==
    /\ ~(token_capacity = 0 \/ token_capacity > RIFT_TOKENIZER_MAX_TOKENS)
    /\ ~(pattern_capacity = 0 \/ pattern_capacity > RIFT_TOKENIZER_MAX_PATTERNS)

\* rift_tokenizer_validate_context (the two buffers are allocated in every
\* context of the model)
RiftTokenizerValidateContext(c) ==
    /\ c.token_count <= c.token_capacity
    /\ c.pattern_count <= c.pattern_capacity
    /\ c.token_capacity <= RIFT_TOKENIZER_MAX_TOKENS
    /\ c.pattern_capacity <= RIFT_TOKENIZER_MAX_PATTERNS

\* rift_tokenizer_reset_statistics: every counter is cleared
RiftTokenizerResetStatistics(c) ==
    [c EXCEPT !.stats = [tokens_processed |-> 0, tokens_generated |-> 0,
                         regex_patterns |-> 0, error_count |-> 0]]

\* rift_tokenizer_compact_buffers, the token part
CompactTokenBuffer(c, alloc_ok) ==
    IF c.token_count > 0 /\ c.token_count < c.token_capacity \div 2
    THEN RiftTokenizerResizeTokenBuffer(
             c,
             IF c.token_count * 2 < RIFT_TOKENIZER_DEFAULT_CAPACITY
             THEN RIFT_TOKENIZER_DEFAULT_CAPACITY ELSE c.token_count * 2,
             alloc_ok)
    ELSE [ctx |-> c, ret |-> TRUE]

\* rift_tokenizer_compact_buffers, the pattern part, after the token part
\* gave t
CompactPatternBuffer(t, alloc_ok) ==
    IF t.ctx.pattern_count > 0 /\ t.ctx.pattern_count < t.ctx.pattern_capacity \div 2
    THEN [ctx |-> RiftTokenizerResizePatternBuffer(
                      t.ctx,
                      IF t.ctx.pattern_count * 2 < RIFT_TOKENIZER_MIN_PATTERN_CAPACITY
                      THEN RIFT_TOKENIZER_MIN_PATTERN_CAPACITY
                      ELSE t.ctx.pattern_count * 2,
                      alloc_ok).ctx,
          ret |-> t.ret /\ RiftTokenizerResizePatternBuffer(
                      t.ctx,
                      IF t.ctx.pattern_count * 2 < RIFT_TOKENIZER_MIN_PATTERN_CAPACITY
                      THEN RIFT_TOKENIZER_MIN_PATTERN_CAPACITY
                      ELSE t.ctx.pattern_count * 2,
                      alloc_ok).ret]
    ELSE t

\* whether rift_tokenizer_compact_buffers calls one of the resize functions
CompactResizes(c) ==
    \/ c.token_count > 0 /\ c.token_count < c.token_capacity \div 2
    \/ c.pattern_count > 0 /\ c.pattern_count < c.pattern_capacity \div 2

\* what pthread_mutex_lock does in a thread that holds the mutex already.
\* context_mutex is initialised with NULL attributes; locking such a mutex
\* again from its owner is undefined: the call never returns, or it returns
\* an error.
RelockOutcomes == {"blocks", "fails"}

\* rift_tokenizer_compact_buffers.  In thread-safe mode the function holds
\* the mutex when it calls the resize functions, and each of them locks
\* again: with "blocks" the call stays in pthread_mutex_lock, with "fails"
\* rift_tokenizer_lock returns false and the resize returns false before it
\* changed anything.
RiftTokenizerCompactBuffers(c, alloc_tokens, alloc_patterns, relock) ==
    IF c.thread_safe_mode /\ CompactResizes(c)
    THEN [ctx |-> c, ret |-> FALSE, blocked |-> (relock = "blocks")]
    ELSE [ctx |-> CompactPatternBuffer(CompactTokenBuffer(c, alloc_tokens),
                                       alloc_patterns).ctx,
          ret |-> CompactPatternBuffer(CompactTokenBuffer(c, alloc_tokens),
                                       alloc_patterns).ret,
          blocked |-> FALSE]

\* the sizes asked of create and of the two resize functions
TokenSizes == {4, RIFT_TOKENIZER_MAX_TOKENS, RIFT_TOKENIZER_MAX_TOKENS + 1}
PatternSizes == {4, 64, RIFT_TOKENIZER_MAX_PATTERNS + 1}

\* the pattern this caller registers
BufferPattern == LongPattern

InitBuffers ==
    /\ \E tc \in TokenSizes, pcap \in PatternSizes :
          /\ CreateAccepts(tc, pcap)
          /\ ctx = RiftTokenizerCreateWithCapacity(tc, pcap)
    /\ lexemes = <<>>
    /\ result = 0
    /\ last_op = "create"
    /\ snap = NoSnap
    /\ phase = "none"
    /\ NoThreads
    /\ NoRouter
    /\ NoCompile
    /\ NoDfa
    /\ NoMatcher
    /\ NoBuffer

\* the caller is in no operation
CallerIdle == pc[1] = "idle"

BuffersRegister ==
    /\ CallerIdle
    /\ ctx.pattern_count < MaxBufferPatterns
    /\ Returned(RiftRulesRegisterPattern(ctx, BufferPattern.pattern,
                                         BufferPattern.token_type,
                                         BufferPattern.flags, "ok"), "register")

BuffersUnregister ==
    /\ CallerIdle
    /\ Returned(RiftRulesUnregisterPattern(ctx, BufferPattern.pattern), "unregister")

BuffersScan ==
    /\ CallerIdle
    /\ \E input \in {CStr(<<"a">>)} :
          /\ ctx.stats.tokens_processed + Len(input) <= MaxBufferBytes
          /\ DoScan(input, Len(input))
    /\ UNCHANGED <<snapVars, threadVars, routerVars, compileVars, dfaVars,
                   matchVars, bufferVars>>

BuffersReset ==
    /\ CallerIdle
    /\ Returned([ctx |-> RiftTokenizerReset(ctx), ret |-> TRUE], "reset")

BuffersResizeTokenBuffer ==
    /\ CallerIdle
    /\ \E new_capacity \in TokenSizes :
          Returned(RiftTokenizerResizeTokenBuffer(ctx, new_capacity, TRUE),
                   "resize_token_buffer")

BuffersResizePatternBuffer ==
    /\ CallerIdle
    /\ \E new_capacity \in PatternSizes :
          Returned(RiftTokenizerResizePatternBuffer(ctx, new_capacity, TRUE),
                   "resize_pattern_buffer")

\* the call returned r.ret, or it stays inside pthread_mutex_lock with the
\* mutex held by the caller itself
Compacted(r) ==
    /\ ctx' = r.ctx
    /\ last_op' = "compact_buffers"
    /\ result' = (IF r.ret THEN 1 ELSE 0)
    /\ pc' = (IF r.blocked THEN [pc EXCEPT ![1] = "acquire"] ELSE pc)
    /\ mutex' = (IF r.blocked THEN 1 ELSE mutex)

BuffersCompact ==
    /\ CallerIdle
    /\ \E relock \in RelockOutcomes :
          Compacted(RiftTokenizerCompactBuffers(ctx, TRUE, TRUE, relock))
    /\ UNCHANGED <<lexemes, local, snapVars, routerVars, compileVars, dfaVars,
                   matchVars, bufferVars>>

BuffersSetThreadSafeMode ==
    /\ CallerIdle
    /\ \E thread_safe \in BOOLEAN :
          Returned([ctx |-> RiftTokenizerSetThreadSafeMode(ctx, thread_safe),
                    ret |-> TRUE], "set_thread_safe_mode")

NextBuffers ==
    \/ BuffersRegister \/ BuffersUnregister \/ BuffersScan \/ BuffersReset
    \/ BuffersResizeTokenBuffer \/ BuffersResizePatternBuffer
    \/ BuffersCompact \/ BuffersSetThreadSafeMode

SpecBuffers == InitBuffers /\ [][NextBuffers]_vars

C34_CompactReturns ==
    \A t \in Threads : ~(pc[t] = "acquire" /\ mutex = t)

\* C36: rift_tokenizer_compact_buffers never increases a capacity and never
\* discards a token or a pattern: after it returned, each capacity is at
\* most what it was and at least the count, and the tokens and patterns are
\* the ones from before.
C36_CompactShrinksOnly ==
    [][(last_op' = "compact_buffers" /\ CallerIdle /\ pc'[1] = "idle") =>
          /\ ctx'.token_capacity <= ctx.token_capacity
          /\ ctx'.pattern_capacity <= ctx.pattern_capacity
          /\ ctx'.token_capacity >= ctx'.token_count
          /\ ctx'.pattern_capacity >= ctx'.pattern_count
          /\ ctx'.token_count = ctx.token_count
          /\ SubSeq(ctx'.tokens, 1, ctx'.token_count)
                = SubSeq(ctx.tokens, 1, ctx.token_count)
          /\ ctx'.regex_patterns = ctx.regex_patterns
          /\ ctx'.pattern_count = ctx.pattern_count]_vars

-----------------------------------------------------------------------------
(* The statistics counter of registered patterns: one caller registering,   *)
(* unregistering and clearing patterns and resetting the statistics          *)

InitStats == InitRegistry

StatsRegister ==
    /\ CallerIdle
    /\ \E p \in RegistryPatterns :
          Returned(RiftRulesRegisterPattern(ctx, p.pattern, p.token_type,
                                            p.flags, "ok"), "register")

StatsUnregister ==
    /\ CallerIdle
    /\ \E pattern \in {p.pattern : p \in RegistryPatterns} :
          Returned(RiftRulesUnregisterPattern(ctx, pattern), "unregister")

StatsClearAll ==
    /\ CallerIdle
    /\ Returned([ctx |-> RiftRulesClearAll(ctx), ret |-> TRUE], "clear_all")

StatsResetStatistics ==
    /\ CallerIdle
    /\ Returned([ctx |-> RiftTokenizerResetStatistics(ctx), ret |-> TRUE],
                "reset_statistics")

NextStats ==
    StatsRegister \/ StatsUnregister \/ StatsClearAll \/ StatsResetStatistics

SpecStats == InitStats /\ [][NextStats]_vars

\* C40: after any sequence of register, unregister, clear and
\* reset-statistics operations the counter stats.regex_patterns is never
\* taken below zero (a size_t that would wrap around), and after every
\* change of the registry, so before any later reset of the statistics, it
\* equals pattern_count.
C40_PatternCounter ==
    /\ [](ctx.stats.regex_patterns >= 0)
    /\ [][ctx'.pattern_count # ctx.pattern_count =>
             ctx'.stats.regex_patterns = ctx'.pattern_count]_vars

-----------------------------------------------------------------------------
(* The range loop of a character class in _compile_simple_pattern:          *)
(*     for (unsigned char ch = c1; ch <= c2; ch++) temp_set[ch] = true;     *)
(* one iteration at a time.  ch is an unsigned char: ch++ is taken modulo   *)
(* 256.                                                                      *)

\* the bounds of the ranges compiled
RangeBounds == {0, 97, 122, 254, 255}

InitRange ==
    /\ InitCtx
    /\ snap = NoSnap
    /\ phase = "none"
    /\ NoThreads
    /\ NoRouter
    /\ NoCompile
    /\ NoDfa
    /\ NoMatcher
    /\ fetched = [called |-> FALSE]
    /\ loop = [running |-> FALSE]
    /\ \E c1 \in RangeBounds, c2 \in RangeBounds :
          /\ c1 <= c2
          /\ range = [running |-> TRUE, done |-> FALSE, c1 |-> c1, c2 |-> c2,
                      ch |-> c1, temp_set |-> {}, iterations |-> 0]

\* the loop test holds: the body, then ch++
RangeStep ==
    /\ range.running /\ ~range.done
    /\ range.ch <= range.c2
    /\ range.iterations < MaxRangeSteps
    /\ range' = [range EXCEPT !.temp_set = @ \cup {range.ch},
                              !.ch = (@ + 1) % 256,
                              !.iterations = @ + 1]
    /\ UNCHANGED <<fetched, loop, ctxVars, snapVars, threadVars, routerVars,
                   compileVars, dfaVars, matchVars>>

\* the loop test fails: the loop is left
RangeExit ==
    /\ range.running /\ ~range.done
    /\ ~(range.ch <= range.c2)
    /\ range' = [range EXCEPT !.done = TRUE]
    /\ UNCHANGED <<fetched, loop, ctxVars, snapVars, threadVars, routerVars,
                   compileVars, dfaVars, matchVars>>

NextRange == RangeStep \/ RangeExit

SpecRange == InitRange /\ [][NextRange]_vars

\* the thread inside _compile_simple_pattern keeps running
SpecRangeFair == SpecRange /\ WF_vars(NextRange)

\* C37: compiling a character-class range terminates for every pair of
\* bounds c1 <= c2 in 0..255, a range ending at byte 255 included: the loop
\* adding the bytes runs c2 - c1 + 1 times, no more, and is left with the
\* bytes c1..c2 collected.
C37_RangeLoopTerminates ==
    /\ [](/\ range.iterations <= range.c2 - range.c1 + 1
          /\ range.done => /\ range.iterations = range.c2 - range.c1 + 1
                           /\ range.temp_set = RangeSet(range.c1, range.c2))
    /\ <>range.done

\* C38: for every pattern the compiler accepts, the number of accept states
\* it records is at most the 16 slots of accept_states, whatever the number
\* of optional atoms at the end of the pattern.
C38_AcceptStatesFit ==
    composition.is_compiled =>
       Len(composition.graph.accept) <= ACCEPT_STATES_SLOTS

\* C39: while a graph is destroyed, the number of entries ever placed in the
\* pending queue is at most DFA_MAX_STATES, for every graph the compiler
\* produces, states entered by many bytes included.
C39_QueueFits ==
    destroyed.called => destroyed.enqueued <= DFA_MAX_STATES

====
